---- MODULE Spec2Model ----
(***************************************************************************)
(* A model of the study-assistant backend of src/app.py: the process-wide  *)
(* session store (chat_sessions), the speech queue endpoints               *)
(* (/text-to-speech/queue, /text-to-speech/process-queue), the chat        *)
(* dialogue, the PDF upload and the question-state endpoint.               *)
(*                                                                         *)
(* Python dicts are modelled as functions whose DOMAIN is the set of keys  *)
(* present, so that `key in d`, d.get(key, default) and the KeyError of    *)
(* d[key] are modelled as the code executes them.  Wall-clock time stamps  *)
(* and free text are left out; every collaborator call is an input that    *)
(* either returns or raises.                                               *)
(***************************************************************************)
EXTENDS Integers, Sequences, FiniteSets, TLC

\* ------------------------------------------------------------------ bounds
\* Number of enqueue requests accepted (each is given a fresh context id).
MaxEnqueue == 3

\* Largest number of questions one generation returns.
MaxQuestions == 2
\* Largest length of a session's message list.
MaxMessages == 4
\* Largest number of answers counted in one question-progress record.
MaxCount == 2

\* Largest number of realtime tokens issued to one session.
MaxTokens == 1
\* Number of steps the clock takes.
MaxTicks == 2
\* The lines of a raw generation output.
MaxLines == 2
\* Number of dispatches followed through their synthesis.
MaxStreams == 2
\* Number of handlers that wait in a collaborator call at the same time.
MaxInFlight == 2

\* ---------------------------------------------------------------- constants
\* len(text) > 100 selects streaming delivery.
StreamingThreshold == 100

SessionIds == {"s1", "s2"}
\* session.get('session_id') is None: the request carries no session cookie.
NoCookie == "no_cookie"
Cookies == SessionIds \cup {NoCookie}

Priorities == {"high", "normal", "low"}
\* Text lengths on both sides of the streaming threshold.
TextLengths == {StreamingThreshold, StreamingThreshold + 1}
\* The request body has no 'text' key.
NoText == -1

\* Python None where a dict is expected (active_tts).
None == [none |-> TRUE]
\* Python None where a string is expected (current_topic).
NullTopic == "None"

\* ------------------------------------------------------------ dict helpers
Has(d, k) == k \in DOMAIN d
Get(d, k, default) == IF k \in DOMAIN d THEN d[k] ELSE default
DictSet(d, k, v) == [x \in (DOMAIN d) \cup {k} |-> IF x = k THEN v ELSE d[x]]
EmptyDict == [x \in {} |-> 0]
\* chat_sessions.get(session_id, {})
SessionOrEmpty(cs, s) == IF s \in DOMAIN cs THEN cs[s] ELSE EmptyDict
\* (mutant) the field is written to every session of the store
SessSetEverySession(cs, s, k, v) == [x \in DOMAIN cs |-> DictSet(cs[x], k, v)]

\* chat_sessions[s][k] = v  (s is a key of cs)
SessSet(cs, s, k, v) == [cs EXCEPT ![s] = DictSet(cs[s], k, v)]

VARIABLES
    chat_sessions,   \* session id -> session dict
    next_ctx,        \* context ids issued so far + 1 (uuid4: never repeats)
    cartesia_key,    \* CARTESIA_API_KEY is set (read once at start-up)
    response,        \* the response of the last request handled
    socket_sessions, \* connection sid -> the authenticated binding
    connections,     \* the sids of the realtime connections that are open
    rooms,           \* <<sid, room>>: the connection is in the broadcast group
    emitted,         \* what the last realtime handler sent, and to whom
    now,             \* time.time()
    in_flight,       \* the handlers waiting in a collaborator call, with their locals
    synthesis,       \* the dispatches followed through their synthesis, oldest first
    cleared          \* the context ids a clear has taken out of a queue

\* The state of the realtime channel and the clock.
socket_vars == <<socket_sessions, connections, rooms, emitted, now>>

\* The requests that are followed across their collaborator waits.  A handler
\* that runs without interleaving leaves them alone.
flight_vars == <<in_flight, synthesis, cleared>>

vars == <<chat_sessions, next_ctx, cartesia_key, response, socket_vars, flight_vars>>

\* No realtime handler has run yet.
NoEmission == [sid |-> "none", handler |-> "none", events |-> <<>>]

Resp(op, sid, status, body) == [op |-> op, sid |-> sid, status |-> status, body |-> body]

\* The dict every session-creating entry point stores.
NewSession == [messages |-> <<>>, current_topic |-> NullTopic, generated_questions |-> <<>>]

Init ==
    /\ chat_sessions = EmptyDict
    /\ next_ctx = 1
    /\ cartesia_key \in BOOLEAN
    /\ response = Resp("none", NoCookie, 0, "none")
    /\ socket_sessions = EmptyDict
    /\ connections = {}
    /\ rooms = {}
    /\ emitted = NoEmission
    /\ now = 0
    /\ in_flight = {}
    /\ synthesis = <<>>
    /\ cleared = {}

\* (mutant) the entry is initialised again at every resolution
GetOrCreateAlwaysNew(cs, s) == NewSession

\* if session_id not in chat_sessions: chat_sessions[session_id] = {...}
\* followed by chat_sessions[session_id]
GetOrCreate(cs, s) == IF s \in DOMAIN cs THEN cs[s] ELSE NewSession

\* GET / with a session cookie: the page is rendered, nothing is stored.
IndexWithCookie(c) ==
    /\ c \in SessionIds
    /\ response' = Resp("index", c, 200, "page")
    /\ UNCHANGED <<chat_sessions, next_ctx, cartesia_key, flight_vars, socket_vars>>

\* GET / without a session cookie: a fresh uuid4 becomes the session id.
Index(s) ==
    /\ s \in SessionIds
    /\ s \notin DOMAIN chat_sessions
    /\ chat_sessions' = DictSet(chat_sessions, s, NewSession)
    /\ response' = Resp("index", s, 200, "page")
    /\ UNCHANGED <<next_ctx, cartesia_key, flight_vars, socket_vars>>

\* --------------------------------------------------------------- UI state
DefaultUiState ==
    [is_assistant_speaking |-> FALSE,
     is_microphone_active |-> FALSE,
     is_continuous_listening |-> FALSE,
     visualizer_settings |-> [num_bars |-> 20, sensitivity |-> 10, color |-> "#3498db"],
     current_question_index |-> 0]

\* ui_state['is_assistant_speaking'] = v, only `if 'ui_state' in session`.
SetSpeaking(sess, v) ==
    IF Has(sess, "ui_state")
    THEN DictSet(sess, "ui_state", DictSet(sess["ui_state"], "is_assistant_speaking", v))
    ELSE sess

\* GET /ui-state
UiStateGet(c) ==
    /\ UNCHANGED <<next_ctx, cartesia_key, flight_vars, socket_vars>>
    /\ IF c = NoCookie
       THEN /\ response' = Resp("ui_state_get", c, 400, "invalid_session")
            /\ UNCHANGED chat_sessions
       ELSE IF ~Has(SessionOrEmpty(chat_sessions, c), "ui_state") /\ c \notin DOMAIN chat_sessions
       THEN \* chat_sessions[session_id]['ui_state'] = ... raises KeyError
            /\ response' = Resp("ui_state_get", c, 500, "handler_error")
            /\ UNCHANGED chat_sessions
       ELSE /\ chat_sessions' =
                  IF Has(chat_sessions[c], "ui_state") THEN chat_sessions
                  ELSE SessSet(chat_sessions, c, "ui_state", DefaultUiState)
            /\ response' = Resp("ui_state_get", c, 200, "ui_state")

\* ------------------------------------------------------------ speech queue
\* The insert_index loop of the normal-priority branch (0-based index i).
RECURSIVE ScanHigh(_, _)
ScanHigh(q, i) ==
    IF i >= Len(q) THEN i
    ELSE IF q[i + 1].priority # "high" THEN i
    ELSE ScanHigh(q, i + 1)

\* Mutant: a normal item is appended like a low one.
InsertIndexAppendNormal(q, priority) ==
    IF priority = "high" THEN 0 ELSE Len(q)

InsertIndex(q, priority) ==
    IF priority = "high" THEN 0
    ELSE IF priority = "low" THEN Len(q)
    ELSE IF q = <<>> THEN Len(q)
    ELSE ScanHigh(q, 0)

\* (mutant) the item is appended whatever the index
InsertAtTail(q, idx, x) == Append(q, x)

\* list.insert(idx, x)
InsertAt(q, idx, x) == SubSeq(q, 1, idx) \o <<x>> \o SubSeq(q, idx + 1, Len(q))

TtsRequest(ctx, len, priority) ==
    [context_id |-> ctx,
     priority |-> priority,
     is_streaming |-> (len > StreamingThreshold)]

\* "Initialize TTS queue if not present" (c is a key of cs)
TtsInit(cs, c) ==
    IF Has(cs[c], "tts_queue") THEN cs
    ELSE [cs EXCEPT ![c] = DictSet(DictSet(cs[c], "tts_queue", <<>>), "active_tts", None)]

\* GET /text-to-speech/queue
TtsStatus(c) ==
    /\ UNCHANGED <<next_ctx, cartesia_key, flight_vars, socket_vars>>
    /\ IF c = NoCookie
       THEN /\ response' = Resp("tts_status", c, 400, "invalid_session")
            /\ UNCHANGED chat_sessions
       ELSE IF c \notin DOMAIN chat_sessions
       THEN /\ response' = Resp("tts_status", c, 500, "handler_error")
            /\ UNCHANGED chat_sessions
       ELSE /\ chat_sessions' = TtsInit(chat_sessions, c)
            /\ response' = Resp("tts_status", c, 200, "status")

\* DELETE /text-to-speech/queue; cancel_ok: the collaborator's cancel_context
\* returns (TRUE) or raises (FALSE).
\* Mutant: active_tts is reset only on the path that has nothing to cancel.
ClearedSessionKeepActive(sess) ==
    SetSpeaking(DictSet(sess, "tts_queue", <<>>), FALSE)

ClearedSession(sess) ==
    SetSpeaking(DictSet(DictSet(sess, "tts_queue", <<>>), "active_tts", None), FALSE)

\* What the handler prints about the cancel call: nothing when there is no
\* Active item with a context_id, else the success or the caught exception.
CancelLog(sess, cancel_ok) ==
    IF sess["active_tts"] = None THEN "no_active"
    ELSE IF cancel_ok THEN "cancelled" ELSE "cancel_error"

TtsClear(c, cancel_ok) ==
    /\ UNCHANGED <<next_ctx, cartesia_key, flight_vars, socket_vars>>
    /\ IF c = NoCookie
       THEN /\ response' = Resp("tts_clear", c, 400, "invalid_session")
            /\ UNCHANGED chat_sessions
       ELSE IF c \notin DOMAIN chat_sessions
       THEN /\ response' = Resp("tts_clear", c, 500, "handler_error")
            /\ UNCHANGED chat_sessions
       ELSE /\ chat_sessions' =
                  [chat_sessions EXCEPT ![c] = ClearedSession(TtsInit(chat_sessions, c)[c])]
            /\ response' = [op |-> "tts_clear", sid |-> c, status |-> 200, body |-> "cleared",
                            log |-> CancelLog(TtsInit(chat_sessions, c)[c], cancel_ok)]

\* POST /text-to-speech/queue
TtsEnqueue(c, len, priority) ==
    /\ UNCHANGED <<cartesia_key, flight_vars, socket_vars>>
    /\ IF c = NoCookie
       THEN /\ response' = Resp("tts_enqueue", c, 400, "invalid_session")
            /\ UNCHANGED <<chat_sessions, next_ctx>>
       ELSE IF c \notin DOMAIN chat_sessions
       THEN /\ response' = Resp("tts_enqueue", c, 500, "handler_error")
            /\ UNCHANGED <<chat_sessions, next_ctx>>
       ELSE IF len = NoText
       THEN /\ chat_sessions' = TtsInit(chat_sessions, c)
            /\ response' = Resp("tts_enqueue", c, 400, "no_text")
            /\ UNCHANGED next_ctx
       ELSE /\ next_ctx <= MaxEnqueue
            /\ LET cs1 == TtsInit(chat_sessions, c)
                   q == cs1[c]["tts_queue"]
                   req == TtsRequest(next_ctx, len, priority)
                   idx == InsertIndex(q, priority)
               IN /\ chat_sessions' = SessSet(cs1, c, "tts_queue", InsertAt(q, idx, req))
                  /\ response' = [op |-> "tts_enqueue", sid |-> c, status |-> 200,
                                  body |-> "added", context_id |-> next_ctx,
                                  queue_position |-> idx]
            /\ next_ctx' = next_ctx + 1

\* What the synthesis collaborator does with a dispatched item.
SynthOutcomes == {"ok", "client_error", "synth_error"}

\* The response of a dispatch (after the pop), by delivery mode and outcome.
\* delivery_failed is not part of the response: it records that the credential
\* was missing or that the collaborator raised.
Delivery(c, status, mimetype, body, failed) ==
    [op |-> "process_next", sid |-> c, status |-> status, mimetype |-> mimetype,
     body |-> body, delivery_failed |-> failed]

DeliveryResponse(c, item, synth) ==
    IF ~cartesia_key
    THEN Delivery(c, 503, "application/json", "key_not_configured", TRUE)
    ELSE IF synth = "client_error"
    THEN \* import cartesia / cartesia.Cartesia(...) raises: outer except
         Delivery(c, 500, "application/json", "handler_error", TRUE)
    ELSE IF item.is_streaming
    THEN \* the Response is returned before the generator runs: status 200;
         \* an exception in the generator is written into the stream
         IF synth = "ok"
         THEN Delivery(c, 200, "multipart/x-mixed-replace", "audio_frames", FALSE)
         ELSE Delivery(c, 200, "multipart/x-mixed-replace", "error_text_frame", TRUE)
    ELSE IF synth = "ok"
         THEN Delivery(c, 200, "audio/mpeg", "audio", FALSE)
         ELSE Delivery(c, 500, "application/json", "sdk_error", TRUE)

\* Mutant: the head is dispatched but stays in the queue.
PoppedSessionNoPop(sess) ==
    SetSpeaking(DictSet(sess, "active_tts", Head(sess["tts_queue"])), TRUE)

\* tts_queue.pop(0); active_tts = next_request; is_assistant_speaking = True
PoppedSession(sess) ==
    SetSpeaking(DictSet(DictSet(sess, "tts_queue", Tail(sess["tts_queue"])),
                        "active_tts", Head(sess["tts_queue"])), TRUE)

\* The store and the response of POST /text-to-speech/process-queue.
ProcessNext(c, synth) ==
    /\ UNCHANGED <<next_ctx, cartesia_key, socket_vars>>
    /\ IF c = NoCookie
       THEN /\ response' = Resp("process_next", c, 400, "invalid_session")
            /\ UNCHANGED chat_sessions
       ELSE IF ~Has(SessionOrEmpty(chat_sessions, c), "tts_queue")
       THEN /\ response' = Resp("process_next", c, 404, "no_queue")
            /\ UNCHANGED chat_sessions
       ELSE IF chat_sessions[c]["tts_queue"] = <<>>
       THEN /\ chat_sessions' = [chat_sessions EXCEPT ![c] = SetSpeaking(@, FALSE)]
            /\ response' = Resp("process_next", c, 200, "queue_empty")
       ELSE /\ chat_sessions' = [chat_sessions EXCEPT ![c] = PoppedSession(@)]
            /\ response' = DeliveryResponse(c, Head(chat_sessions[c]["tts_queue"]), synth)

\* POST /text-to-speech/process-queue, the delivery consumed before any other
\* request is handled
ProcessTtsQueue(c, synth) == ProcessNext(c, synth) /\ UNCHANGED flight_vars

\* The speech-queue workload: one browser session (with or without its cookie).
TtsCookies == {"s1", NoCookie}

NextTTS ==
    \/ \E s \in TtsCookies \cap SessionIds : Index(s)
    \/ \E c \in TtsCookies : UiStateGet(c)
    \/ \E c \in TtsCookies : TtsStatus(c)
    \/ \E c \in TtsCookies, ok \in BOOLEAN : TtsClear(c, ok)
    \/ \E c \in TtsCookies, len \in TextLengths \cup {NoText}, p \in Priorities : TtsEnqueue(c, len, p)
    \/ \E c \in TtsCookies, synth \in SynthOutcomes : ProcessTtsQueue(c, synth)

\* ------------------------------------------------- speech queue properties
TierRank(priority) == IF priority = "high" THEN 0 ELSE IF priority = "normal" THEN 1 ELSE 2

QueueOf(c) == chat_sessions[c]["tts_queue"]
HasQueue(c) == c \in DOMAIN chat_sessions /\ Has(chat_sessions[c], "tts_queue")

\* ui_state.get('is_assistant_speaking') is true
IsSpeaking(sess) ==
    /\ Has(sess, "ui_state")
    /\ Has(sess["ui_state"], "is_assistant_speaking")
    /\ sess["ui_state"]["is_assistant_speaking"]

\* C1: in every reachable state the pending queue of every session is ordered
\* by tier: no normal or low item is before a high item, and no low item is
\* before a normal item.
C1_TierOrdered ==
    \A c \in SessionIds : HasQueue(c) =>
        \A i, j \in 1..Len(QueueOf(c)) :
            i < j => TierRank(QueueOf(c)[i].priority) <= TierRank(QueueOf(c)[j].priority)

\* C1 witness: all three tiers are pending, in tier order, although the low
\* item was enqueued first and the high item last.
C1_Witness ==
    /\ HasQueue("s1")
    /\ Len(QueueOf("s1")) = 3
    /\ QueueOf("s1")[1].priority = "high" /\ QueueOf("s1")[1].context_id = 3
    /\ QueueOf("s1")[2].priority = "normal" /\ QueueOf("s1")[2].context_id = 2
    /\ QueueOf("s1")[3].priority = "low" /\ QueueOf("s1")[3].context_id = 1

\* C2 (as claimed): pending items of the same priority are in the order in
\* which they were enqueued (context ids are issued in enqueue order), so
\* that the head-first drain is FIFO within each tier.
C2_FifoWithinTier ==
    \A c \in SessionIds : HasQueue(c) =>
        \A i, j \in 1..Len(QueueOf(c)) :
            (i < j /\ QueueOf(c)[i].priority = QueueOf(c)[j].priority)
                => QueueOf(c)[i].context_id < QueueOf(c)[j].context_id

\* C3: a process_next step on a non-empty queue removes exactly the head,
\* records it as the Active item and keeps the rest in order; on an empty
\* queue it answers queue_empty and changes neither the queue nor the Active
\* item.
C3_ProcessNextPopsHead ==
    [][\A c \in SessionIds :
        (response'.op = "process_next" /\ response'.sid = c /\ HasQueue(c)) =>
            IF QueueOf(c) # <<>>
            THEN /\ chat_sessions'[c]["tts_queue"] = Tail(QueueOf(c))
                 /\ chat_sessions'[c]["active_tts"] = Head(QueueOf(c))
                 /\ response'.body # "queue_empty"
            ELSE /\ chat_sessions'[c]["tts_queue"] = <<>>
                 /\ chat_sessions'[c]["active_tts"] = chat_sessions[c]["active_tts"]
                 /\ response'.body = "queue_empty"]_vars

\* C3 witness: an item was popped from a queue holding more than one item
\* and is the Active item.
C3_Witness ==
    /\ response.op = "process_next" /\ response.body = "audio"
    /\ HasQueue("s1")
    /\ chat_sessions["s1"]["active_tts"] # None
    /\ Len(QueueOf("s1")) >= 1

\* C4: after clear() on a session, the pending queue is empty, the Active
\* item is unset and the UI flag is_assistant_speaking is not true, also
\* when the cancel call raised.
C4_ClearLeavesIdle ==
    \A c \in SessionIds :
        (response.op = "tts_clear" /\ response.sid = c /\ c \in DOMAIN chat_sessions) =>
            /\ HasQueue(c)
            /\ QueueOf(c) = <<>>
            /\ chat_sessions[c]["active_tts"] = None
            /\ ~IsSpeaking(chat_sessions[c])

\* C4 witness: a clear whose cancel call raised, on a session that has a UI
\* state.
C4_Witness ==
    /\ response.op = "tts_clear" /\ response.status = 200
    /\ response.log = "cancel_error"
    /\ Has(chat_sessions[response.sid], "ui_state")
    /\ chat_sessions[response.sid]["ui_state"]["is_assistant_speaking"] = FALSE

\* C5 (as claimed): a failed delivery is answered with a structured error
\* response (a JSON error body with an error status), and the failed item is
\* not in the queue again.
C5_FailureIsStructuredError ==
    (response.op = "process_next" /\ Has(response, "delivery_failed") /\ response.delivery_failed) =>
        /\ response.mimetype = "application/json"
        /\ response.status >= 400
        /\ \A i \in 1..Len(QueueOf(response.sid)) :
              QueueOf(response.sid)[i] # chat_sessions[response.sid]["active_tts"]

SpecTTS == Init /\ [][NextTTS]_vars


\* ------------------------------------------------------ question generation
\* extract_difficulty(message) returns None
NoDifficulty == "None"

\* A question is named by the generation it comes from and its place in it.
Question(topic, difficulty, k) == [topic |-> topic, difficulty |-> difficulty, k |-> k]
QuestionList(topic, difficulty, n) == [k \in 1..n |-> Question(topic, difficulty, k)]
NoQuestion == Question("", "", 0)
\* ["Could not generate valid active recall questions. ..."]
SentinelList == <<Question("could not generate", "", 1)>>

\* What the generation collaborator and the parser make of one request: the
\* call raises, the text parses to nothing (the sentinel list), or n questions.
GenOutcomes ==
    {[kind |-> "error", n |-> 0], [kind |-> "sentinel", n |-> 1]}
        \cup {[kind |-> "questions", n |-> n] : n \in 1..MaxQuestions}

generate_active_recall_questions(topic, difficulty, gen) ==
    IF gen.kind = "error" THEN <<>>
    ELSE IF gen.kind = "sentinel" THEN SentinelList
    ELSE QuestionList(topic, difficulty, gen.n)

\* The question_state dict the chat dialogue stores with a new question list.
ChatQuestionState(n, difficulty) ==
    [current_index |-> 0, total |-> n, difficulty |-> difficulty,
     correct_count |-> 0, incorrect_count |-> 0]

\* The question_state dict /questions/state stores when the session has none.
\* Counts are kept in halves (2 is one answer) because the chat dialogue adds
\* 0.5; mastery_level is kept in hundredths.
InitialQuestionState ==
    [current_index |-> 0, answered_questions |-> <<>>, skipped_questions |-> <<>>,
     correct_count |-> 0, partially_correct_count |-> 0, incorrect_count |-> 0,
     last_answer_evaluation |-> None, mastery_level |-> 0, question_history |-> <<>>]

\* The question_state dict /upload-pdf stores.
PdfQuestionState(n) == [current_index |-> 0, total |-> n, source |-> "pdf"]

\* round(num / den, k) on the scaled integers: to the nearest, ties to even
\* (the ties met within the bounds are exact binary fractions).
RoundHalfEven(num, den) ==
    LET q == num \div den
        r == num % den
    IN IF 2 * r < den THEN q
       ELSE IF 2 * r > den THEN q + 1
       ELSE IF q % 2 = 0 THEN q ELSE q + 1

\* round(weighted_score / total_answers, 2) in hundredths, counts in halves.
MasteryLevel(correct, partially, incorrect) ==
    RoundHalfEven(100 * (2 * correct + partially), 2 * (correct + partially + incorrect))

\* ------------------------------------------------------------ chat dialogue
\* What the pattern matches of the dialogue make of a user message:
\*   topic, difficulty  analyze_review_topic(message)
\*   new_topic          is_new_topic_request(message)
\*   next               is_next_question_request(message)
\*   diff_change        is_difficulty_change_request(message)
\*   new_difficulty     extract_difficulty(message)
\*   hint               "hint" in message or "help" in message
Msg(topic, difficulty, new_topic, next, diff_change, new_difficulty, hint) ==
    [topic |-> topic, difficulty |-> difficulty, new_topic |-> new_topic, next |-> next,
     diff_change |-> diff_change, new_difficulty |-> new_difficulty, hint |-> hint]

Messages ==
    \* "review t1" / an answer that names nothing special, and an empty topic
    {Msg(t, "mixed", FALSE, FALSE, FALSE, NoDifficulty, FALSE) : t \in {"t1", ""}}
    \* "switch to t2"
    \cup {Msg("t2", "mixed", TRUE, FALSE, FALSE, NoDifficulty, FALSE)}
    \* "next"
    \cup {Msg("t1", "mixed", FALSE, TRUE, FALSE, NoDifficulty, FALSE)}
    \* "make it easier" / "make it basic level"
    \cup {Msg("t1", "mixed", FALSE, FALSE, TRUE, NoDifficulty, FALSE),
          Msg("t1", "basic", FALSE, FALSE, TRUE, "basic", FALSE)}
    \* "give me a hint"
    \cup {Msg("t1", "mixed", FALSE, FALSE, FALSE, NoDifficulty, TRUE)}
    \* messages that match several checks: "switch to t2, next question",
    \* "next, basic level, help"
    \cup {Msg("t2", "mixed", TRUE, TRUE, FALSE, NoDifficulty, FALSE),
          Msg("t1", "basic", FALSE, TRUE, TRUE, "basic", TRUE)}

\* The phrases the classification of a feedback text looks for.
Keywords == {"correct", "incorrect", "not correct", "partially", "partly", "partially correct"}
\* A feedback text is the set of those phrases it contains (lower-cased); a
\* text that contains a phrase contains the phrases inside it.
Feedbacks ==
    {f \in SUBSET Keywords :
        /\ ("incorrect" \in f => "correct" \in f)
        /\ ("not correct" \in f => "correct" \in f)
        /\ ("partially correct" \in f => ("partially" \in f /\ "correct" \in f))}

\* The feedback collaborator's answers used in the dialogue: the call raises,
\* or it returns one of these texts.
LlmOutcomes ==
    {[kind |-> "error", text |-> {}]}
        \cup {[kind |-> "text", text |-> f] :
                f \in {{}, {"correct"},
                       {"correct", "partially", "partially correct"},
                       {"correct", "incorrect", "partially", "partially correct"}}}

\* What a dialogue function returns: the session as it leaves it, the kind of
\* reply, the question the reply carries, the figures of a completion
\* summary, and the answer_quality decided (if an answer was evaluated).
Reply(sess, body, question, correct, total, quality) ==
    [sess |-> sess, body |-> body, question |-> question,
     correct |-> correct, total |-> total, answer_quality |-> quality]

PlainReply(sess, body) == Reply(sess, body, NoQuestion, 0, 0, "none")

\* The session with a new topic, question list and question_state stored.
\* (mutant) the progress of the previous question list is kept
WithQuestionsKeepProgress(sess, topic, difficulty, questions) ==
    DictSet(DictSet(DictSet(DictSet(sess,
        "current_topic", topic),
        "topic_difficulty", difficulty),
        "generated_questions", questions),
        "question_state",
        IF Has(sess, "question_state")
        THEN DictSet(sess["question_state"], "total", Len(questions))
        ELSE ChatQuestionState(Len(questions), difficulty))

WithQuestions(sess, topic, difficulty, questions) ==
    DictSet(DictSet(DictSet(DictSet(sess,
        "current_topic", topic),
        "topic_difficulty", difficulty),
        "generated_questions", questions),
        "question_state", ChatQuestionState(Len(questions), difficulty))

\* (mutant) the topic is stored although the generation returned nothing
handle_topic_identificationKeepsTopic(sess, msg, gen) ==
    IF msg.topic = "" THEN PlainReply(sess, "clarify")
    ELSE LET questions == generate_active_recall_questions(msg.topic, msg.difficulty, gen)
         IN IF questions = <<>>
            THEN PlainReply(DictSet(sess, "current_topic", msg.topic), "apology")
            ELSE Reply(WithQuestions(sess, msg.topic, msg.difficulty, questions),
                       "first_question", questions[1], 0, 0, "none")

handle_topic_identification(sess, msg, gen) ==
    IF msg.topic = "" THEN PlainReply(sess, "clarify")
    ELSE LET questions == generate_active_recall_questions(msg.topic, msg.difficulty, gen)
         IN IF questions = <<>> THEN PlainReply(sess, "apology")
            ELSE Reply(WithQuestions(sess, msg.topic, msg.difficulty, questions),
                       "first_question", questions[1], 0, 0, "none")

handle_next_question(sess) ==
    LET questions == Get(sess, "generated_questions", <<>>)
        question_state == Get(sess, "question_state", [current_index |-> 0])
        current_index == Get(question_state, "current_index", 0)
        next_index == current_index + 1
    IN IF questions = <<>> THEN PlainReply(sess, "no_questions")
       ELSE IF next_index >= Len(questions)
       THEN Reply(DictSet(sess, "question_state", DictSet(question_state, "current_index", 0)),
                  "summary", NoQuestion,
                  Get(question_state, "correct_count", 0), Len(questions), "none")
       ELSE Reply(DictSet(sess, "question_state",
                          DictSet(question_state, "current_index", next_index)),
                  "next_question", questions[next_index + 1], 0, 0, "none")

\* feedback_text.lower(): a text is the set of phrases it contains and the
\* case it is written in; lower-casing keeps the phrases.
Lower(text) == [words |-> text.words, upper |-> FALSE]
\* phrase in text (a case-sensitive search for a lower-case phrase)
Contains(phrase, text) == ~text.upper /\ phrase \in text.words
\* The feedback texts: every consistent combination of the phrases, written
\* in lower case or in upper case.
FeedbackTexts == {[words |-> f, upper |-> u] : f \in Feedbacks, u \in BOOLEAN}

\* answer_quality of the chat dialogue, from the lower-cased feedback text
ChatQuality(lowered) ==
    IF Contains("correct", lowered) /\ ~Contains("incorrect", lowered) THEN "correct"
    ELSE IF Contains("partially correct", lowered) THEN "partially correct"
    ELSE "incorrect"

\* evaluation of the question-state action 'evaluate', from the lower-cased
\* feedback text
RestEvaluation(lowered) ==
    IF Contains("correct", lowered)
          /\ ~(Contains("not correct", lowered) \/ Contains("incorrect", lowered))
    THEN "correct"
    ELSE IF Contains("partially", lowered) \/ Contains("partly", lowered)
    THEN "partially_correct"
    ELSE "incorrect"

\* answer_quality and the counts, from the feedback text (llm.text is the set
\* of phrases of the text).
ChatEvaluated(question_state, text) ==
    LET quality == ChatQuality(Lower([words |-> text, upper |-> FALSE]))
    IN IF quality = "correct"
       THEN [quality |-> quality,
             state |-> DictSet(question_state, "correct_count",
                               Get(question_state, "correct_count", 0) + 2)]
       ELSE IF quality = "partially correct"
       THEN [quality |-> quality,
             state |-> DictSet(question_state, "correct_count",
                               Get(question_state, "correct_count", 0) + 1)]
       ELSE [quality |-> quality,
             state |-> DictSet(question_state, "incorrect_count",
                               Get(question_state, "incorrect_count", 0) + 2)]

\* (mutant) a hint is counted as an incorrect answer
generate_feedback_or_hintCountsHint(sess, is_hint_request, llm) ==
    LET questions == Get(sess, "generated_questions", <<>>)
        question_state == Get(sess, "question_state", [current_index |-> 0])
        current_index == Get(question_state, "current_index", 0)
    IN IF questions = <<>> \/ current_index >= Len(questions)
       THEN PlainReply(sess, "not_sure")
       ELSE IF llm.kind = "error" THEN PlainReply(sess, "feedback_apology")
       ELSE IF is_hint_request
       THEN PlainReply(DictSet(sess, "question_state",
                               ChatEvaluated(question_state, {}).state), "hint")
       ELSE LET ev == ChatEvaluated(question_state, llm.text)
            IN Reply(DictSet(sess, "question_state", ev.state),
                     "feedback", NoQuestion, 0, 0, ev.quality)

generate_feedback_or_hint(sess, is_hint_request, llm) ==
    LET questions == Get(sess, "generated_questions", <<>>)
        question_state == Get(sess, "question_state", [current_index |-> 0])
        current_index == Get(question_state, "current_index", 0)
    IN IF questions = <<>> \/ current_index >= Len(questions)
       THEN PlainReply(sess, "not_sure")
       ELSE IF llm.kind = "error" THEN PlainReply(sess, "feedback_apology")
       ELSE IF is_hint_request THEN PlainReply(sess, "hint")
       ELSE LET ev == ChatEvaluated(question_state, llm.text)
            IN Reply(DictSet(sess, "question_state", ev.state),
                     "feedback", NoQuestion, 0, 0, ev.quality)

handle_ongoing_conversation(sess, msg, gen, llm) ==
    LET new_questions ==
            generate_active_recall_questions(msg.topic, msg.difficulty, gen)
        diff_questions ==
            generate_active_recall_questions(sess["current_topic"], msg.new_difficulty, gen)
    IN IF msg.new_topic /\ msg.topic # ""
       THEN IF new_questions # <<>>
            THEN Reply(WithQuestions(sess, msg.topic, msg.difficulty, new_questions),
                       "switched_topic", new_questions[1], 0, 0, "none")
            ELSE PlainReply(sess, "apology")
       ELSE IF msg.next THEN handle_next_question(sess)
       ELSE IF msg.diff_change /\ msg.new_difficulty # NoDifficulty /\ diff_questions # <<>>
       THEN Reply(DictSet(DictSet(DictSet(sess,
                      "topic_difficulty", msg.new_difficulty),
                      "generated_questions", diff_questions),
                      "question_state",
                      ChatQuestionState(Len(diff_questions), msg.new_difficulty)),
                  "updated_difficulty", diff_questions[1], 0, 0, "none")
       ELSE generate_feedback_or_hint(sess, msg.hint, llm)

\* An entry of session['messages']; of the content only its kind is kept: the
\* user's text, or a reply of the assistant.
Message(role, content) ==
    [role |-> role, content |-> IF role = "user" THEN "text" ELSE "reply"]

\* The number of answers counted so far leaves room for one more.
CountsBelowBound(sess) ==
    LET question_state == Get(sess, "question_state", EmptyDict)
    IN Get(question_state, "correct_count", 0) + Get(question_state, "incorrect_count", 0)
           < 2 * MaxCount

\* The store and the response of POST /chat; has_message is false for an
\* empty message.
ChatRequest(c, has_message, msg, gen, llm) ==
    /\ UNCHANGED <<next_ctx, cartesia_key, socket_vars>>
    /\ IF c = NoCookie \/ ~has_message
       THEN /\ response' = Resp("chat", c, 400, "invalid_session_or_empty_message")
            /\ UNCHANGED chat_sessions
       ELSE LET sess0 == GetOrCreate(chat_sessions, c)
                sess1 == DictSet(sess0, "messages",
                                 Append(sess0["messages"], Message("user", "text")))
                r == IF sess1["current_topic"] = NullTopic
                     THEN handle_topic_identification(sess1, msg, gen)
                     ELSE handle_ongoing_conversation(sess1, msg, gen, llm)
                sess2 == DictSet(r.sess, "messages",
                                 Append(r.sess["messages"], Message("assistant", r.body)))
            IN /\ Len(sess0["messages"]) + 2 <= MaxMessages
               /\ CountsBelowBound(sess0)
               /\ chat_sessions' = DictSet(chat_sessions, c, sess2)
               /\ response' = [op |-> "chat", sid |-> c, status |-> 200, body |-> r.body,
                               question |-> r.question, correct |-> r.correct,
                               total |-> r.total, answer_quality |-> r.answer_quality,
                               has_topic |-> (sess2["current_topic"] # NullTopic)]

\* POST /chat, handled while no other request of the session waits
Chat(c, has_message, msg, gen, llm) ==
    ChatRequest(c, has_message, msg, gen, llm) /\ UNCHANGED flight_vars

\* --------------------------------------------------------------- PDF upload
\* What becomes of one upload: the request is rejected before the try block,
\* reading the file raises, the pipeline raises, the pipeline reports an
\* error, it returns no questions, or it returns n questions.
PdfOutcomes ==
    {[kind |-> k, n |-> 0] :
        k \in {"bad_request", "read_raises", "invoke_raises", "pipeline_error", "no_questions"}}
        \cup {[kind |-> "questions", n |-> n] : n \in 1..MaxQuestions}

PdfTopic == "PDF: f"
UiProcessing == [is_processing_pdf |-> TRUE, pdf_filename |-> "f.pdf"]
\* (mutant) the error is stored next to a flag that stays set
UiPdfErrorStillProcessing == [is_processing_pdf |-> TRUE, pdf_error |-> "error"]

UiPdfError == [is_processing_pdf |-> FALSE, pdf_error |-> "error"]
UiPdfDone == [is_processing_pdf |-> FALSE, pdf_processed |-> TRUE, pdf_filename |-> "f.pdf"]

\* socketio.emit(..., room=session_id) of the upload handler: the events go
\* to the broadcast group of the session.
Broadcast(room, events) == [sid |-> "none", room |-> room, handler |-> "upload_pdf",
                            events |-> events]

\* The store, the pushes and the response of POST /upload-pdf with session id
\* s (from the cookie, or a fresh uuid4).
\* The handler pushes `if session_id in socket_sessions`, and socket_sessions
\* is keyed by the connections' request.sid.
UploadRequest(s, out) ==
    /\ s \in SessionIds
    /\ UNCHANGED <<next_ctx, cartesia_key, socket_sessions, connections, rooms, now>>
    /\ IF out.kind = "bad_request"
       THEN /\ response' = Resp("upload_pdf", s, 400, "bad_request")
            /\ UNCHANGED <<chat_sessions, emitted>>
       ELSE IF out.kind = "read_raises"
       THEN \* before the session is initialised: the except clause stores the
            \* error only `if session_id in chat_sessions`
            /\ chat_sessions' =
                  IF s \in DOMAIN chat_sessions
                  THEN SessSet(chat_sessions, s, "ui_state", UiPdfError)
                  ELSE chat_sessions
            /\ emitted' =
                  IF s \in DOMAIN chat_sessions /\ s \in DOMAIN socket_sessions
                  THEN Broadcast(s, <<[event |-> "ui_state_update", payload |-> UiPdfError]>>)
                  ELSE emitted
            /\ response' = Resp("upload_pdf", s, 500, "error")
       ELSE LET sess0 == GetOrCreate(chat_sessions, s)
                sess1 == DictSet(sess0, "ui_state", UiProcessing)
                questions == QuestionList(PdfTopic, "", out.n)
            IN IF out.kind # "questions"
               THEN /\ chat_sessions' =
                          DictSet(chat_sessions, s, DictSet(sess1, "ui_state", UiPdfError))
                    /\ emitted' =
                          IF out.kind = "invoke_raises" /\ s \in DOMAIN socket_sessions
                          THEN Broadcast(s, <<[event |-> "ui_state_update",
                                               payload |-> UiPdfError]>>)
                          ELSE emitted
                    /\ response' = Resp("upload_pdf", s, 500, "error")
               ELSE /\ Len(sess0["messages"]) + 1 <= MaxMessages
                    /\ chat_sessions' = DictSet(chat_sessions, s,
                          DictSet(DictSet(DictSet(DictSet(DictSet(sess1,
                              "current_topic", PdfTopic),
                              "generated_questions", questions),
                              "question_state", PdfQuestionState(Len(questions))),
                              "ui_state", UiPdfDone),
                              "messages", Append(sess1["messages"],
                                                 Message("assistant", "pdf_questions"))))
                    /\ emitted' =
                          IF s \in DOMAIN socket_sessions
                          THEN Broadcast(s,
                                  <<[event |-> "ui_state_update", payload |-> UiPdfDone],
                                    [event |-> "question_state_update",
                                     question_state |-> PdfQuestionState(Len(questions)),
                                     current_question |-> questions[1],
                                     total_questions |-> Len(questions)]>>)
                          ELSE emitted
                    /\ response' = Resp("upload_pdf", s, 200, "questions")

\* POST /upload-pdf, handled while no other request of the session waits
UploadPdf(s, out) == UploadRequest(s, out) /\ UNCHANGED flight_vars

\* ---------------------------------------------------------- /questions/state
\* "Initialize question state if not present" (c is a key of cs)
QsInit(cs, c) ==
    IF Has(cs[c], "question_state") THEN cs
    ELSE SessSet(cs, c, "question_state", InitialQuestionState)

\* The part every request of the endpoint runs first: the response of a
\* request that ends there, or "go_on".
QsEntry(c) ==
    IF c = NoCookie THEN "invalid_session"
    ELSE IF c \notin DOMAIN chat_sessions THEN "handler_error"
    ELSE "go_on"

QsEntryResponse(op, c) ==
    IF QsEntry(c) = "invalid_session" THEN Resp(op, c, 400, "invalid_session")
    ELSE Resp(op, c, 500, "handler_error")

\* GET /questions/state
QsGet(c) ==
    /\ UNCHANGED <<next_ctx, cartesia_key, flight_vars, socket_vars>>
    /\ IF QsEntry(c) # "go_on"
       THEN /\ response' = QsEntryResponse("qs_get", c)
            /\ UNCHANGED chat_sessions
       ELSE /\ chat_sessions' = QsInit(chat_sessions, c)
            /\ response' = Resp("qs_get", c, 200, "question_state")

\* POST with no JSON body, or with an action that is none of the four.
QsBadRequest(c, body) ==
    /\ body \in {"no_data", "unknown_action"}
    /\ UNCHANGED <<next_ctx, cartesia_key, flight_vars, socket_vars>>
    /\ IF QsEntry(c) # "go_on"
       THEN /\ response' = QsEntryResponse("qs_bad_request", c)
            /\ UNCHANGED chat_sessions
       ELSE /\ chat_sessions' = QsInit(chat_sessions, c)
            /\ response' = Resp("qs_bad_request", c, 400, body)

\* new_index for the actions next (step 1) and previous (step -1)
WrappedIndex(current_index, step, n) == (current_index + step) % n

\* POST {action: 'next'} (step 1) and {action: 'previous'} (step -1): the
\* session and the response. question_state['question_history'] raises
\* KeyError after current_index was stored when the dict has no such key.
QsMove(op, c, sess, step) ==
    LET questions == Get(sess, "generated_questions", <<>>)
        question_state == sess["question_state"]
        new_index == WrappedIndex(question_state["current_index"], step, Len(questions))
        moved == DictSet(question_state, "current_index", new_index)
        question == questions[new_index + 1]
    IN IF questions = <<>>
       THEN [sess |-> sess, response |-> Resp(op, c, 400, "no_questions")]
       ELSE IF ~Has(question_state, "question_history")
       THEN [sess |-> DictSet(sess, "question_state", moved),
             response |-> Resp(op, c, 500, "handler_error")]
       ELSE [sess |->
                DictSet(DictSet(sess,
                    "question_state",
                    DictSet(moved, "question_history",
                            Append(question_state["question_history"],
                                   [question_index |-> new_index, question |-> question]))),
                    "messages", Append(sess["messages"], Message("assistant", "question"))),
             response |-> [op |-> op, sid |-> c, status |-> 200, body |-> "question",
                           question |-> question, index |-> new_index,
                           total |-> Len(questions)]]

QsNext(c) ==
    /\ UNCHANGED <<next_ctx, cartesia_key, flight_vars, socket_vars>>
    /\ IF QsEntry(c) # "go_on"
       THEN /\ response' = QsEntryResponse("qs_next", c)
            /\ UNCHANGED chat_sessions
       ELSE LET r == QsMove("qs_next", c, QsInit(chat_sessions, c)[c], 1)
            IN /\ chat_sessions' = [chat_sessions EXCEPT ![c] = r.sess]
               /\ response' = r.response

QsPrevious(c) ==
    /\ UNCHANGED <<next_ctx, cartesia_key, flight_vars, socket_vars>>
    /\ IF QsEntry(c) # "go_on"
       THEN /\ response' = QsEntryResponse("qs_previous", c)
            /\ UNCHANGED chat_sessions
       ELSE LET r == QsMove("qs_previous", c, QsInit(chat_sessions, c)[c], -1)
            IN /\ chat_sessions' = [chat_sessions EXCEPT ![c] = r.sess]
               /\ response' = r.response

\* generate_feedback_or_hint returns the tuple (message dict, text): the
\* endpoint calls .lower() on it as if it were the text.
FeedbackIsText == FALSE

\* Lines 552-582, which run only on a feedback that is a text: the
\* evaluation, the counts (in halves) and mastery_level (in hundredths).
QsEvaluated(question_state, text) ==
    LET evaluation == RestEvaluation(Lower([words |-> text, upper |-> FALSE]))
        counted ==
            IF evaluation = "correct"
            THEN [evaluation |-> evaluation,
                  state |-> [question_state EXCEPT !["correct_count"] = @ + 2]]
            ELSE IF evaluation = "partially_correct"
            THEN [evaluation |-> evaluation,
                  state |-> [question_state EXCEPT !["partially_correct_count"] = @ + 2]]
            ELSE [evaluation |-> evaluation,
                  state |-> [question_state EXCEPT !["incorrect_count"] = @ + 2]]
        qs == counted.state
        total_answers == qs["correct_count"] + qs["partially_correct_count"] + qs["incorrect_count"]
    IN [evaluation |-> counted.evaluation,
        state |-> IF total_answers > 0
                  THEN DictSet(qs, "mastery_level",
                               MasteryLevel(qs["correct_count"], qs["partially_correct_count"],
                                            qs["incorrect_count"]))
                  ELSE qs]

\* POST {action: 'evaluate', answer: ...}
QsEvaluate(c, has_answer, is_hint_request, llm) ==
    /\ UNCHANGED <<next_ctx, cartesia_key, flight_vars, socket_vars>>
    /\ IF QsEntry(c) # "go_on"
       THEN /\ response' = QsEntryResponse("qs_evaluate", c)
            /\ UNCHANGED chat_sessions
       ELSE LET cs1 == QsInit(chat_sessions, c)
                sess == cs1[c]
                questions == Get(sess, "generated_questions", <<>>)
                Rejected(body) ==
                    /\ chat_sessions' = cs1
                    /\ response' = Resp("qs_evaluate", c, 400, body)
            IN IF ~has_answer THEN Rejected("no_answer")
               ELSE IF questions = <<>> THEN Rejected("no_questions")
               ELSE IF sess["question_state"]["current_index"] >= Len(questions)
               THEN Rejected("invalid_question_index")
               ELSE LET r == generate_feedback_or_hint(sess, is_hint_request, llm)
                        ev == QsEvaluated(r.sess["question_state"], llm.text)
                    IN /\ CountsBelowBound(sess)
                       /\ IF FeedbackIsText
                          THEN /\ chat_sessions' = [cs1 EXCEPT ![c] =
                                      DictSet(r.sess, "question_state", ev.state)]
                               /\ response' = [op |-> "qs_evaluate", sid |-> c, status |-> 200,
                                               body |-> "feedback",
                                               evaluation |-> ev.evaluation,
                                               mastery_level |-> ev.state["mastery_level"],
                                               answer_quality |-> r.answer_quality]
                          ELSE \* AttributeError, caught by the handler's except
                               /\ chat_sessions' = [cs1 EXCEPT ![c] = r.sess]
                               /\ response' = [op |-> "qs_evaluate", sid |-> c, status |-> 500,
                                               body |-> "handler_error",
                                               answer_quality |-> r.answer_quality]

\* The bodies of {action: 'update', ...} requests: a dict of allowed fields.
UpdateBodies ==
    {[current_index |-> i] : i \in 0..MaxQuestions}
        \cup {[correct_count |-> 2 * MaxCount]}

\* for field in allowed_fields: if field in data: question_state[field] = data[field]
RECURSIVE UpdateFields(_, _, _)
UpdateFields(question_state, data, fields) ==
    IF fields = {} THEN question_state
    ELSE LET f == CHOOSE x \in fields : TRUE
         IN UpdateFields(DictSet(question_state, f, data[f]), data, fields \ {f})

AllowedFields ==
    {"current_index", "answered_questions", "skipped_questions",
     "correct_count", "partially_correct_count", "incorrect_count"}

\* POST {action: 'update', ...}
QsUpdate(c, data) ==
    /\ UNCHANGED <<next_ctx, cartesia_key, flight_vars, socket_vars>>
    /\ IF QsEntry(c) # "go_on"
       THEN /\ response' = QsEntryResponse("qs_update", c)
            /\ UNCHANGED chat_sessions
       ELSE LET cs1 == QsInit(chat_sessions, c)
            IN /\ chat_sessions' = SessSet(cs1, c, "question_state",
                      UpdateFields(cs1[c]["question_state"], data,
                                   AllowedFields \cap DOMAIN data))
               /\ response' = Resp("qs_update", c, 200, "question_state")

\* The question workload: the requests of one browser that holds a session
\* cookie (the missing cookie is part of the speech workload).
QuestionCookies == {"s1"}

\* The collaborators' answers to one chat request: the generation outcomes
\* with a failing feedback call, and the feedback outcomes with a failing
\* generation call.
ChatOracles ==
    {[gen |-> g, llm |-> [kind |-> "error", text |-> {}]] : g \in GenOutcomes}
        \cup {[gen |-> [kind |-> "error", n |-> 0], llm |-> l] : l \in LlmOutcomes}

\* The chat requests: one with an empty message, and every message with
\* every answer of the collaborators.
ChatRequests ==
    {[has_message |-> FALSE, msg |-> Msg("", "mixed", FALSE, FALSE, FALSE, NoDifficulty, FALSE),
      gen |-> [kind |-> "error", n |-> 0], llm |-> [kind |-> "error", text |-> {}]]}
        \cup {[has_message |-> TRUE, msg |-> m, gen |-> o.gen, llm |-> o.llm] :
                 m \in Messages, o \in ChatOracles}

\* The evaluate requests: one with no answer, and an answer or a request for
\* a hint with every answer of the feedback collaborator.
EvaluateRequests ==
    {[has_answer |-> FALSE, hint |-> FALSE, llm |-> [kind |-> "error", text |-> {}]]}
        \cup {[has_answer |-> TRUE, hint |-> h, llm |-> l] : h \in BOOLEAN, l \in LlmOutcomes}

NextQuestions ==
    \/ \E s \in QuestionCookies \cap SessionIds : Index(s)
    \/ \E c \in QuestionCookies, r \in ChatRequests :
          Chat(c, r.has_message, r.msg, r.gen, r.llm)
    \/ \E s \in QuestionCookies \cap SessionIds, out \in PdfOutcomes : UploadPdf(s, out)
    \/ \E c \in QuestionCookies : QsGet(c)
    \/ \E c \in QuestionCookies, body \in {"no_data", "unknown_action"} : QsBadRequest(c, body)
    \/ \E c \in QuestionCookies : QsNext(c)
    \/ \E c \in QuestionCookies : QsPrevious(c)
    \/ \E c \in QuestionCookies, r \in EvaluateRequests :
          QsEvaluate(c, r.has_answer, r.hint, r.llm)
    \/ \E c \in QuestionCookies, data \in UpdateBodies : QsUpdate(c, data)

\* The question routes never read the speech credential.
InitQuestions == Init /\ cartesia_key

SpecQuestions == InitQuestions /\ [][NextQuestions]_vars

\* ------------------------------------------------- question progress claims
\* session.get('generated_questions', [])
QuestionsOf(sess) == Get(sess, "generated_questions", <<>>)
\* session.get('question_state', {...}).get('current_index', 0)
CurrentIndex(sess) == Get(Get(sess, "question_state", EmptyDict), "current_index", 0)
\* The session a response answers, before and after the request.
Before == chat_sessions[response'.sid]
After == chat_sessions'[response'.sid]
\* A request of the route `op` was answered for a session that had a
\* non-empty question list.
AnsweredWithQuestions(op) ==
    /\ response'.op = op
    /\ response'.sid \in DOMAIN chat_sessions
    /\ QuestionsOf(Before) # <<>>

\* C6 (as claimed): whenever a session's question list is non-empty, its
\* current_index is at least 0 and less than the number of questions.
C6_IndexInRange ==
    \A c \in DOMAIN chat_sessions :
        QuestionsOf(chat_sessions[c]) # <<>> =>
            /\ 0 <= CurrentIndex(chat_sessions[c])
            /\ CurrentIndex(chat_sessions[c]) < Len(QuestionsOf(chat_sessions[c]))

\* C7 (as claimed): a next-question request in the chat dialogue made at the
\* last index answers with the completion summary and sets current_index to
\* 0; made at any other index it sets current_index to index + 1 and answers
\* with the question at the new index.
C7_ChatNextAdvancesOrSummarises ==
    [][(AnsweredWithQuestions("chat") /\ response'.body \in {"summary", "next_question"}) =>
          IF CurrentIndex(Before) = Len(QuestionsOf(Before)) - 1
          THEN /\ response'.body = "summary"
               /\ CurrentIndex(After) = 0
          ELSE /\ response'.body = "next_question"
               /\ CurrentIndex(After) = CurrentIndex(Before) + 1
               /\ response'.question = QuestionsOf(After)[CurrentIndex(After) + 1]]_vars

\* C8 (as claimed): the question-state action 'next' performed at the last
\* index sets current_index to 0 and answers with a completion summary.
C8_RestNextAtLastIsSummary ==
    [][(AnsweredWithQuestions("qs_next")
            /\ CurrentIndex(Before) = Len(QuestionsOf(Before)) - 1) =>
          /\ CurrentIndex(After) = 0
          /\ response'.status = 200
          /\ response'.body = "summary"]_vars

\* C9 (as claimed): the question-state action 'previous' succeeds for every
\* session with a non-empty question list; at index 0 it sets current_index
\* to the last index, at any other index to index - 1, and it answers with
\* the question at the new index.
C9_RestPreviousWraps ==
    [][AnsweredWithQuestions("qs_previous") =>
          /\ response'.status = 200
          /\ CurrentIndex(After) =
                IF CurrentIndex(Before) = 0 THEN Len(QuestionsOf(Before)) - 1
                ELSE CurrentIndex(Before) - 1
          /\ response'.question = QuestionsOf(After)[CurrentIndex(After) + 1]]_vars

\* The answer of a request reports an evaluated answer.
AnswerEvaluated ==
    /\ response'.op \in {"chat", "qs_evaluate"}
    /\ Has(response', "answer_quality")
    /\ response'.answer_quality # "none"

\* C10 (as claimed): mastery_level is 0 while the counts are all 0, and after
\* every answer evaluation it is (correct_count + 0.5 *
\* partially_correct_count) / (the sum of the three counts) rounded to two
\* decimals (in hundredths, counts in halves), between 0 and 1.
C10_MasteryFollowsCounts ==
    [][AnswerEvaluated =>
          LET question_state == After["question_state"]
              correct == Get(question_state, "correct_count", 0)
              partially == Get(question_state, "partially_correct_count", 0)
              incorrect == Get(question_state, "incorrect_count", 0)
          IN /\ Has(question_state, "mastery_level")
             /\ question_state["mastery_level"] = MasteryLevel(correct, partially, incorrect)
             /\ question_state["mastery_level"] \in 0..100]_vars

\* ------------------------------------------------ classification of feedback
\* The two classifications as functions of the feedback text: the text is
\* drawn at the start, and each step applies one of them to it.
InitFeedback ==
    /\ chat_sessions = EmptyDict
    /\ next_ctx = 1
    /\ cartesia_key = TRUE
    /\ socket_sessions = EmptyDict
    /\ connections = {}
    /\ rooms = {}
    /\ emitted = NoEmission
    /\ now = 0
    /\ in_flight = {}
    /\ synthesis = <<>>
    /\ cleared = {}
    /\ response \in {[op |-> "feedback_text", sid |-> NoCookie, status |-> 0,
                      body |-> "none", text |-> text] : text \in FeedbackTexts}

\* lines 2366-2380 on the feedback text
ClassifyChat ==
    /\ response.op = "feedback_text"
    /\ response' = [op |-> "answer_quality", sid |-> NoCookie, status |-> 0, body |-> "none",
                    text |-> response.text,
                    evaluation |-> ChatQuality(Lower(response.text))]
    /\ UNCHANGED <<chat_sessions, next_ctx, cartesia_key, flight_vars, socket_vars>>

\* lines 552-561 on the feedback text
ClassifyRest ==
    /\ response.op = "feedback_text"
    /\ response' = [op |-> "evaluation", sid |-> NoCookie, status |-> 0, body |-> "none",
                    text |-> response.text,
                    evaluation |-> RestEvaluation(Lower(response.text))]
    /\ UNCHANGED <<chat_sessions, next_ctx, cartesia_key, flight_vars, socket_vars>>

NextFeedback == ClassifyChat \/ ClassifyRest

SpecFeedback == InitFeedback /\ [][NextFeedback]_vars

\* C11 (as claimed): the evaluation is partially_correct for a text that
\* contains 'partially' or 'partly' in any case; otherwise correct for a text
\* that contains 'correct' and neither 'incorrect' nor 'not correct';
\* otherwise incorrect.
C11_EvaluationByPriority ==
    response.op \in {"answer_quality", "evaluation"} =>
        LET words == response.text.words
            claimed ==
                IF "partially" \in words \/ "partly" \in words THEN "partially_correct"
                ELSE IF "correct" \in words /\ "incorrect" \notin words
                            /\ "not correct" \notin words
                THEN "correct"
                ELSE "incorrect"
            evaluation ==
                IF response.evaluation = "partially correct" THEN "partially_correct"
                ELSE response.evaluation
        IN evaluation = claimed

\* -------------------------------------------------------- the chat dialogue
\* The dialogue workload: the chat requests of one browser, with the reads and
\* updates of the question progress between them.
NextChat ==
    \/ \E s \in QuestionCookies \cap SessionIds : Index(s)
    \/ \E c \in QuestionCookies, r \in ChatRequests :
          Chat(c, r.has_message, r.msg, r.gen, r.llm)
    \/ \E c \in QuestionCookies : QsGet(c)
    \/ \E c \in QuestionCookies, data \in UpdateBodies : QsUpdate(c, data)

SpecChat == InitQuestions /\ [][NextChat]_vars

\* The session a chat request of the cookie c works on: the stored one, or
\* the one the request creates.
ChatSession(c) == IF c \in DOMAIN chat_sessions THEN chat_sessions[c] ELSE NewSession
\* topic, difficulty, question list and question progress of a session
DialogueState(sess) ==
    [current_topic |-> sess["current_topic"],
     topic_difficulty |-> Get(sess, "topic_difficulty", NoDifficulty),
     generated_questions |-> QuestionsOf(sess),
     question_state |-> Get(sess, "question_state", None)]

C13_SentinelNeverStored ==
    /\ \A c \in DOMAIN chat_sessions :
          \A i \in 1..Len(QuestionsOf(chat_sessions[c])) :
              QuestionsOf(chat_sessions[c])[i] # SentinelList[1]
    /\ (response.op = "chat" /\ response.status = 200) => response.question # SentinelList[1]

\* The first check of the fixed order that a message matches.
Intent(msg) ==
    IF msg.new_topic THEN "new_topic"
    ELSE IF msg.next THEN "next"
    ELSE IF msg.diff_change THEN "difficulty"
    ELSE IF msg.hint THEN "hint"
    ELSE "answer"

\* The replies each dialogue behaviour can end in.
RepliesOf(intent) ==
    CASE intent = "new_topic" -> {"switched_topic", "apology"}
      [] intent = "next" -> {"summary", "next_question", "no_questions"}
      [] intent = "difficulty" -> {"updated_difficulty", "apology"}
      [] intent = "hint" -> {"hint", "feedback_apology", "not_sure"}
      [] intent = "answer" -> {"feedback", "feedback_apology", "not_sure"}

\* C14 (as claimed): in a session with a topic, a message is handled by the
\* behaviour of the first check it matches, in the order new-topic,
\* next-question, difficulty-change, hint, answer-evaluation, and never by
\* the behaviour of a later one.
C14_FirstMatchWins ==
    [][\A c \in QuestionCookies, r \in ChatRequests :
          (/\ Chat(c, r.has_message, r.msg, r.gen, r.llm)
           /\ r.has_message
           /\ ChatSession(c)["current_topic"] # NullTopic) =>
             response'.body \in RepliesOf(Intent(r.msg))]_vars

\* C15 (as claimed): in a session with a topic, a new-topic request or a
\* change-difficulty request whose question generation fails is answered
\* with the generation apology, and topic, difficulty, question list and
\* question progress are what they were before.
C15_FailedRegenerationKeepsState ==
    [][\A c \in QuestionCookies, r \in ChatRequests :
          (/\ Chat(c, r.has_message, r.msg, r.gen, r.llm)
           /\ r.has_message
           /\ ChatSession(c)["current_topic"] # NullTopic
           /\ r.gen.kind = "error"
           /\ \/ Intent(r.msg) = "new_topic"
              \/ Intent(r.msg) = "difficulty" /\ r.msg.new_difficulty # NoDifficulty) =>
             /\ response'.body = "apology"
             /\ DialogueState(chat_sessions'[c]) = DialogueState(ChatSession(c))]_vars

\* C16: a hint request in a session with a topic (a message whose first
\* matching check is the hint check) leaves topic, difficulty, question list
\* and question progress as they were, and appends the two chat messages of
\* the turn.
C16_HintChangesNoState ==
    [][\A c \in QuestionCookies, r \in ChatRequests :
          (/\ Chat(c, r.has_message, r.msg, r.gen, r.llm)
           /\ r.has_message
           /\ ChatSession(c)["current_topic"] # NullTopic
           /\ Intent(r.msg) = "hint") =>
             /\ DialogueState(chat_sessions'[c]) = DialogueState(ChatSession(c))
             /\ Len(chat_sessions'[c]["messages"]) = Len(ChatSession(c)["messages"]) + 2
             /\ SubSeq(chat_sessions'[c]["messages"], 1, Len(ChatSession(c)["messages"]))
                   = ChatSession(c)["messages"]]_vars

\* C16 witness: a hint was given on the second question of a session.
C16_Witness ==
    /\ response.op = "chat" /\ response.status = 200 /\ response.body = "hint"
    /\ chat_sessions[response.sid]["current_topic"] # NullTopic
    /\ CurrentIndex(chat_sessions[response.sid]) = 1
    /\ Len(QuestionsOf(chat_sessions[response.sid])) = 2

\* ------------------------------------------------------ realtime channel
\* expiry = time.time() + 900
TokenLifetime == 900
\* The clock moves in steps of one token lifetime, so that a token is
\* presented before, at and after its expires_at.
TickSeconds == TokenLifetime

\* del d[k]
DictDel(d, k) == [x \in (DOMAIN d) \ {k} |-> d[x]]

\* request.sid of the connections
Sids == {"k1"}
\* A token string names the session it was issued for and is unique
\* (ws_token_<session_id>_<time>_<uuid4>).
Token(s, n) == [session_id |-> s, n |-> n]
Tokens == {Token(s, n) : s \in SessionIds, n \in 1..MaxTokens}
\* data.get('token') / data.get('session_id') is None
NoToken == Token("", 0)
NoSessionId == ""

\* Time passes.
Tick ==
    /\ now < MaxTicks * TickSeconds
    /\ now' = now + TickSeconds
    /\ UNCHANGED <<chat_sessions, next_ctx, cartesia_key, flight_vars, response,
                   socket_sessions, connections, rooms, emitted>>

\* GET /audio/websocket-token
GetWebsocketToken(c) ==
    /\ UNCHANGED <<next_ctx, cartesia_key, flight_vars, socket_vars>>
    /\ IF c = NoCookie
       THEN /\ response' = Resp("websocket_token", c, 400, "invalid_session")
            /\ UNCHANGED chat_sessions
       ELSE IF c \notin DOMAIN chat_sessions
       THEN \* chat_sessions[session_id]['websocket_tokens'] = {} raises KeyError
            /\ response' = Resp("websocket_token", c, 500, "handler_error")
            /\ UNCHANGED chat_sessions
       ELSE LET tokens == Get(chat_sessions[c], "websocket_tokens", EmptyDict)
                token == Token(c, Cardinality(DOMAIN tokens) + 1)
            IN /\ Cardinality(DOMAIN tokens) < MaxTokens
               /\ chat_sessions' = SessSet(chat_sessions, c, "websocket_tokens",
                      DictSet(tokens, token,
                              [created_at |-> now, expires_at |-> now + TokenLifetime,
                               type |-> "audio"]))
               /\ response' = [op |-> "websocket_token", sid |-> c, status |-> 200,
                               body |-> "token", token |-> token,
                               expires_at |-> now + TokenLifetime]

\* What a realtime handler sent to the connection sid.
Emitted(sid, handler, events) == [sid |-> sid, handler |-> handler, events |-> events]
AuthStatus(status, message) ==
    [event |-> "authentication_status", status |-> status, message |-> message]
UiStateUpdate(s) ==
    [event |-> "ui_state_update", payload |-> Get(chat_sessions[s], "ui_state", EmptyDict)]

\* The framework's part of a disconnection: the connection is closed and
\* leaves every room.
Closed(k) ==
    /\ connections' = connections \ {k}
    /\ rooms' = {m \in rooms : m[1] # k}

\* connect
HandleConnect(k) ==
    /\ k \notin connections
    /\ connections' = connections \cup {k}
    /\ emitted' = Emitted(k, "connect", <<[event |-> "connection_status"]>>)
    /\ UNCHANGED <<chat_sessions, next_ctx, cartesia_key, flight_vars, response,
                   socket_sessions, rooms, now>>

\* (mutant) the binding outlives the connection
UnbindKeeps(k) == socket_sessions

\* if request.sid in socket_sessions: del socket_sessions[request.sid]
Unbind(k) ==
    IF k \in DOMAIN socket_sessions THEN DictDel(socket_sessions, k) ELSE socket_sessions

\* disconnect
HandleDisconnect(k) ==
    /\ k \in connections
    /\ Closed(k)
    /\ socket_sessions' = Unbind(k)
    /\ emitted' = Emitted(k, "disconnect", <<>>)
    /\ UNCHANGED <<chat_sessions, next_ctx, cartesia_key, flight_vars, response, now>>

\* (mutant) a token of any session is accepted for the named session
SessionTokensOfAll(session_id) ==
    IF session_id \notin DOMAIN chat_sessions THEN EmptyDict ELSE
    [token \in UNION {DOMAIN Get(chat_sessions[s], "websocket_tokens", EmptyDict) :
                          s \in DOMAIN chat_sessions} |->
        chat_sessions[token.session_id]["websocket_tokens"][token]]

\* The token map the token is looked up in: that of the named session, if
\* the session exists and has one.
SessionTokens(session_id) ==
    IF session_id \in DOMAIN chat_sessions
    THEN Get(chat_sessions[session_id], "websocket_tokens", EmptyDict)
    ELSE EmptyDict

\* (mutant) no token is ever too old
TokenExpiredNever(token_data) == FALSE

\* token_data['expires_at'] < time.time()
TokenExpired(token_data) == token_data["expires_at"] < now

\* authenticate, with data = {token, session_id}
HandleAuthentication(k, token, session_id) ==
    /\ k \in connections
    /\ UNCHANGED <<chat_sessions, next_ctx, cartesia_key, flight_vars, response, connections, now>>
    /\ LET Reject(message) ==
               /\ emitted' = Emitted(k, "authenticate", <<AuthStatus("error", message)>>)
               /\ UNCHANGED <<socket_sessions, rooms>>
           tokens == SessionTokens(session_id)
       IN IF token = NoToken \/ session_id = NoSessionId
          THEN Reject("Missing token or session_id")
          ELSE IF token \notin DOMAIN tokens
          THEN Reject("Invalid token or session")
          ELSE IF TokenExpired(tokens[token])
          THEN Reject("Token expired")
          ELSE /\ socket_sessions' = DictSet(socket_sessions, k,
                      \* (authenticated_at, which nothing reads, is left out)
                      [session_id |-> session_id, token |-> token,
                       type |-> tokens[token]["type"]])
               /\ rooms' = rooms \cup {<<k, session_id>>}
               /\ emitted' = Emitted(k, "authenticate",
                      <<[event |-> "authentication_status", status |-> "success",
                         message |-> "Authenticated successfully",
                         session_id |-> session_id],
                        UiStateUpdate(session_id)>>)

\* (mutant) the connection is left open
RejectUnauthenticatedStaysOpen(k) == UNCHANGED <<connections, rooms>>

\* authenticated_only on a connection without a binding: disconnect()
RejectUnauthenticated(k) == Closed(k)

\* The payloads of the three authenticated-only handlers, for the session the
\* connection k is bound to.
SessionEvent(handler, k) ==
    LET sess == chat_sessions[socket_sessions[k]["session_id"]]
        question_state == Get(sess, "question_state", EmptyDict)
        questions == Get(sess, "generated_questions", <<>>)
        current_index == Get(question_state, "current_index", 0)
    IN CASE handler = "ui_state_request" ->
              [event |-> "ui_state_update", payload |-> Get(sess, "ui_state", EmptyDict)]
         [] handler = "question_state_request" ->
              [event |-> "question_state_update", question_state |-> question_state,
               current_question |->
                   IF questions # <<>> /\ current_index < Len(questions)
                   THEN questions[current_index + 1] ELSE NoQuestion,
               total_questions |-> Len(questions)]
         [] handler = "tts_status_request" ->
              [event |-> "tts_status_update",
               queue_length |-> Len(Get(sess, "tts_queue", <<>>)),
               is_playing |-> (Get(sess, "active_tts", None) # None),
               active |-> Get(sess, "active_tts", None)]

AuthenticatedOnlyHandlers == {"ui_state_request", "question_state_request", "tts_status_request"}

\* ui_state_request, question_state_request, tts_status_request
HandleSessionRequest(k, handler) ==
    /\ k \in connections
    /\ handler \in AuthenticatedOnlyHandlers
    /\ UNCHANGED <<chat_sessions, next_ctx, cartesia_key, flight_vars, response, socket_sessions, now>>
    /\ IF k \notin DOMAIN socket_sessions
       THEN /\ RejectUnauthenticated(k)
            /\ emitted' = Emitted(k, handler, <<>>)
       ELSE /\ emitted' = Emitted(k, handler, <<SessionEvent(handler, k)>>)
            /\ UNCHANGED <<connections, rooms>>

\* The realtime workload: two sessions, their tokens, the clock and one
\* connection.
NextSocket ==
    \/ \E s \in SessionIds : Index(s)
    \/ \E c \in QuestionCookies : UiStateGet(c)
    \/ \E c \in SessionIds : GetWebsocketToken(c)
    \/ Tick
    \/ \E k \in Sids : HandleConnect(k)
    \/ \E k \in Sids : HandleDisconnect(k)
    \/ \E k \in Sids, token \in Tokens \cup {NoToken}, s \in SessionIds \cup {NoSessionId} :
          HandleAuthentication(k, token, s)
    \/ \E k \in Sids, handler \in AuthenticatedOnlyHandlers : HandleSessionRequest(k, handler)

SpecSocket == InitQuestions /\ [][NextSocket]_vars

\* The whole program: speech, questions and chat, realtime channel.
Next == NextTTS \/ NextQuestions \/ NextSocket

Spec == Init /\ [][Next]_vars

\* ------------------------------------------------ realtime channel claims
\* The token is in the token map of the named session.
TokenKnown(token, s) ==
    /\ s \in DOMAIN chat_sessions
    /\ Has(chat_sessions[s], "websocket_tokens")
    /\ token \in DOMAIN chat_sessions[s]["websocket_tokens"]
\* The reply of an authenticate request.
AuthReply == emitted'.events[1]

\* C17: an authenticate request with a token of the named session that is
\* past its expires_at is answered 'Token expired', one with a token that is
\* not in the named session's token map is answered 'Invalid token or
\* session'; neither creates a binding nor joins a group, so a connection
\* without a binding is still without one.
C17_RejectedAuthentication ==
    [][\A k \in Sids, token \in Tokens, s \in SessionIds :
          HandleAuthentication(k, token, s) =>
             /\ (TokenKnown(token, s)
                   /\ chat_sessions[s]["websocket_tokens"][token]["expires_at"] < now) =>
                   /\ AuthReply = AuthStatus("error", "Token expired")
                   /\ socket_sessions' = socket_sessions
                   /\ rooms' = rooms
             /\ ~TokenKnown(token, s) =>
                   /\ AuthReply = AuthStatus("error", "Invalid token or session")
                   /\ socket_sessions' = socket_sessions
                   /\ rooms' = rooms]_vars

\* C17 witness: an expired token was rejected and the connection has no
\* binding.
C17_Witness ==
    /\ emitted.handler = "authenticate"
    /\ emitted.events[1] = AuthStatus("error", "Token expired")
    /\ emitted.sid \in connections
    /\ emitted.sid \notin DOMAIN socket_sessions

\* C18: an authenticate request succeeds exactly when token and session_id
\* are given, the named session exists, the token is in that session's token
\* map and is not expired; then the token was issued for that session, the
\* connection is bound to it, is in its broadcast group and was sent its
\* current UI state; otherwise binding and groups are unchanged.
C18_AuthenticationSucceeds ==
    [][\A k \in Sids, token \in Tokens \cup {NoToken}, s \in SessionIds \cup {NoSessionId} :
          HandleAuthentication(k, token, s) =>
             IF /\ token # NoToken /\ s # NoSessionId
                /\ TokenKnown(token, s)
                /\ ~(chat_sessions[s]["websocket_tokens"][token]["expires_at"] < now)
             THEN /\ AuthReply.status = "success"
                  /\ AuthReply.session_id = s
                  /\ token.session_id = s
                  /\ k \in DOMAIN socket_sessions'
                  /\ socket_sessions'[k]["session_id"] = s
                  /\ <<k, s>> \in rooms'
                  /\ Len(emitted'.events) = 2
                  /\ emitted'.events[2] =
                        [event |-> "ui_state_update",
                         payload |-> Get(chat_sessions[s], "ui_state", EmptyDict)]
             ELSE /\ AuthReply.status = "error"
                  /\ socket_sessions' = socket_sessions
                  /\ rooms' = rooms]_vars

\* C18 witness: a connection was authenticated for a session that has a UI
\* state and a token of the other session exists.
C18_Witness ==
    /\ emitted.handler = "authenticate"
    /\ emitted.events[1].status = "success"
    /\ emitted.events[2].payload = DefaultUiState
    /\ \E s \in DOMAIN chat_sessions :
          /\ s # socket_sessions[emitted.sid]["session_id"]
          /\ Has(chat_sessions[s], "websocket_tokens")

\* C19: a connection with a binding keeps it while it stays open; a
\* disconnect deletes the binding; a connection that opens has no binding;
\* a binding appears only with a successful authenticate request.
C19_AuthenticatedUntilDisconnect ==
    [][\A k \in Sids :
          /\ (k \in DOMAIN socket_sessions /\ k \in connections') =>
                k \in DOMAIN socket_sessions'
          /\ (k \in connections /\ k \notin connections') => k \notin DOMAIN socket_sessions'
          /\ (k \notin connections /\ k \in connections') => k \notin DOMAIN socket_sessions'
          /\ (k \notin DOMAIN socket_sessions /\ k \in DOMAIN socket_sessions') =>
                /\ emitted'.handler = "authenticate" /\ emitted'.sid = k
                /\ AuthReply.status = "success"]_vars

\* C19 witness: a connection authenticated earlier is served after its token
\* has expired.
C19_Witness ==
    /\ emitted.handler = "ui_state_request"
    /\ emitted.events # <<>>
    /\ emitted.sid \in DOMAIN socket_sessions
    /\ LET binding == socket_sessions[emitted.sid]
       IN chat_sessions[binding["session_id"]]["websocket_tokens"][binding["token"]]["expires_at"]
             < now

\* C20: an authenticated-only handler called on a connection without a
\* binding closes the connection and sends it nothing.
C20_UnauthenticatedIsDisconnected ==
    [][\A k \in Sids, handler \in AuthenticatedOnlyHandlers :
          (HandleSessionRequest(k, handler) /\ k \notin DOMAIN socket_sessions) =>
             /\ k \notin connections'
             /\ emitted'.events = <<>>]_vars

\* C20 witness: a request for session data on a connection without a binding
\* was refused while a session with a UI state exists.
C20_Witness ==
    /\ emitted.handler \in AuthenticatedOnlyHandlers
    /\ emitted.events = <<>>
    /\ emitted.sid \notin connections
    /\ \E s \in DOMAIN chat_sessions : Has(chat_sessions[s], "ui_state")

\* ------------------------------------------------------- session store
\* The session workload: the three entry points that create a session, called
\* with and without an entry in the store.
NextSession ==
    \/ \E s \in QuestionCookies \cap SessionIds : Index(s)
    \/ \E c \in QuestionCookies \cap SessionIds : IndexWithCookie(c)
    \/ \E c \in QuestionCookies, r \in ChatRequests :
          Chat(c, r.has_message, r.msg, r.gen, r.llm)
    \/ \E s \in QuestionCookies \cap SessionIds, out \in PdfOutcomes : UploadPdf(s, out)

SpecSession == InitQuestions /\ [][NextSession]_vars

\* s begins with the sequence p.
IsPrefix(p, s) == Len(p) <= Len(s) /\ SubSeq(s, 1, Len(p)) = p

\* C21: a session-creating entry point called with an id that is not in the
\* store creates its entry, and called with an id that is in the store works
\* on the stored entry: GET / leaves the store as it is, a chat request
\* appends to the stored messages, an upload whose pipeline fails keeps the
\* stored messages, topic and questions; no request removes an entry or
\* creates one for another id.
C21_SessionCreationIdempotent ==
    [][\A c \in QuestionCookies \cap SessionIds :
          /\ IndexWithCookie(c) => chat_sessions' = chat_sessions
          /\ \A r \in ChatRequests :
                (r.has_message /\ Chat(c, r.has_message, r.msg, r.gen, r.llm)) =>
                   /\ DOMAIN chat_sessions' = DOMAIN chat_sessions \cup {c}
                   /\ IsPrefix(Append(IF c \in DOMAIN chat_sessions
                                      THEN chat_sessions[c]["messages"] ELSE <<>>,
                                      Message("user", "text")),
                               chat_sessions'[c]["messages"])
                   /\ Len(chat_sessions'[c]["messages"])
                         = 2 + (IF c \in DOMAIN chat_sessions
                                THEN Len(chat_sessions[c]["messages"]) ELSE 0)
          /\ \A out \in PdfOutcomes :
                (out.kind \in {"invoke_raises", "pipeline_error", "no_questions"}
                   /\ UploadPdf(c, out)) =>
                   /\ DOMAIN chat_sessions' = DOMAIN chat_sessions \cup {c}
                   /\ \A k \in {"messages", "current_topic", "generated_questions"} :
                         chat_sessions'[c][k] = GetOrCreate(chat_sessions, c)[k]
                   /\ c \in DOMAIN chat_sessions =>
                         \A k \in DOMAIN chat_sessions[c] \ {"ui_state"} :
                            /\ k \in DOMAIN chat_sessions'[c]
                            /\ chat_sessions'[c][k] = chat_sessions[c][k]]_vars

\* C21 witness: a failed upload was resolved to a session that already had a
\* topic, questions and messages, and left them in place.
C21_Witness ==
    /\ response.op = "upload_pdf" /\ response.status = 500
    /\ response.sid \in DOMAIN chat_sessions
    /\ chat_sessions[response.sid]["current_topic"] \notin {NullTopic, PdfTopic}
    /\ chat_sessions[response.sid]["generated_questions"] # <<>>
    /\ Len(chat_sessions[response.sid]["messages"]) >= 2

\* The operations that are no session-creating entry point (GET /, /chat and
\* /upload-pdf create sessions).
StoreReadingOps ==
    {"ui_state_get", "tts_status", "tts_clear", "tts_enqueue", "process_next",
     "qs_get", "qs_bad_request", "qs_evaluate", "qs_update", "websocket_token"}

AudioState(continuous, mode) ==
    [is_listening |-> TRUE, is_continuous |-> continuous, recognition_mode |-> mode,
     audio_chunks |-> <<>>, transcription_history |-> <<>>]

\* POST /audio/speech-to-text/start
StartSpeechRecognition(c, continuous) ==
    /\ UNCHANGED <<next_ctx, cartesia_key, flight_vars, socket_vars>>
    /\ IF c = NoCookie
       THEN /\ response' = Resp("stt_start", c, 400, "invalid_session")
            /\ UNCHANGED chat_sessions
       ELSE IF c \notin DOMAIN chat_sessions
       THEN /\ response' = Resp("stt_start", c, 500, "handler_error")
            /\ UNCHANGED chat_sessions
       ELSE LET history == Get(Get(chat_sessions[c], "audio_state", EmptyDict),
                               "transcription_history", <<>>)
                cs1 == SessSet(chat_sessions, c, "audio_state",
                               DictSet(AudioState(continuous, "command"),
                                       "transcription_history", history))
            IN /\ chat_sessions' =
                     IF Has(cs1[c], "ui_state")
                     THEN SessSet(cs1, c, "ui_state",
                              DictSet(DictSet(cs1[c]["ui_state"],
                                  "is_microphone_active", TRUE),
                                  "is_continuous_listening", continuous))
                     ELSE cs1
               /\ response' = Resp("stt_start", c, 200, "started")

\* The requests of two browsers, each with its own session cookie, in every
\* interleaving. Both hold a chat dialogue and read the UI state; the first
\* also uses the speech queue, speech recognition and a realtime token.
IsolationChatRequests ==
    {r \in ChatRequests :
        /\ r.has_message
        /\ r.msg \in {Msg("t1", "mixed", FALSE, FALSE, FALSE, NoDifficulty, FALSE),
                      Msg("t1", "mixed", FALSE, TRUE, FALSE, NoDifficulty, FALSE)}
        /\ r.gen = [kind |-> "questions", n |-> MaxQuestions]
        /\ r.llm.kind = "error"}

SpeechCookies == {"s1"}

NextIsolation ==
    \/ \E s \in SessionIds : Index(s)
    \/ \E c \in SessionIds : UiStateGet(c)
    \/ \E c \in SessionIds, r \in IsolationChatRequests :
          Chat(c, r.has_message, r.msg, r.gen, r.llm)
    \/ \E c \in SpeechCookies : TtsEnqueue(c, StreamingThreshold, "normal")
    \/ \E c \in SpeechCookies : ProcessTtsQueue(c, "ok")
    \/ \E c \in SpeechCookies : StartSpeechRecognition(c, TRUE)
    \/ \E c \in SpeechCookies : GetWebsocketToken(c)

SpecIsolation == InitQuestions /\ [][NextIsolation]_vars

\* C23: a request made with the cookie of one session leaves every other
\* session of the store exactly as it was: no field of it is added, removed
\* or changed, and the session is not removed.
C23_SessionsIsolated ==
    [][\A s \in DOMAIN chat_sessions :
          response'.sid # s =>
             /\ s \in DOMAIN chat_sessions'
             /\ chat_sessions'[s] = chat_sessions[s]]_vars

\* C23 witness: a request of the first session was served while both
\* sessions hold a dialogue and a UI state, and the first also a speech queue
\* with an Active item, an audio state and a token.
C23_Witness ==
    /\ DOMAIN chat_sessions = SessionIds
    /\ response.sid \in SpeechCookies
    /\ \A s \in SessionIds :
          /\ chat_sessions[s]["generated_questions"] # <<>>
          /\ Has(chat_sessions[s], "ui_state")
    /\ \A c \in SpeechCookies :
          /\ {"tts_queue", "audio_state", "websocket_tokens"} \subseteq DOMAIN chat_sessions[c]
          /\ chat_sessions[c]["active_tts"] # None

\* ------------------------------------------------------------ cancellation
\* The context ids a cancel request can name: issued ones (queued, Active or
\* finished) and one that was never issued.
ContextIds == 1..(MaxEnqueue + 1)
NoContextId == 0

\* POST /text-to-speech/cancel; cancel_ok: the collaborator's cancel_context
\* returns (TRUE) or raises (FALSE). The session store is not touched.
CancelTts(context_id, cancel_ok) ==
    /\ UNCHANGED <<chat_sessions, next_ctx, cartesia_key, flight_vars, socket_vars>>
    /\ response' =
          [op |-> "tts_cancel", sid |-> NoCookie, context_id |-> context_id,
           status |-> IF context_id = NoContextId THEN 400
                      ELSE IF ~cartesia_key THEN 503
                      ELSE IF cancel_ok THEN 200 ELSE 500,
           body |-> IF context_id = NoContextId THEN "no_context_id"
                    ELSE IF ~cartesia_key THEN "not_configured"
                    ELSE IF cancel_ok THEN "cancelled" ELSE "sdk_error"]

\* The cancellation workload: the speech queue of one browser and cancel
\* requests for any context id.
NextCancel ==
    \/ \E s \in QuestionCookies \cap SessionIds : Index(s)
    \/ \E c \in QuestionCookies, p \in Priorities : TtsEnqueue(c, StreamingThreshold, p)
    \/ \E c \in QuestionCookies, synth \in SynthOutcomes : ProcessTtsQueue(c, synth)
    \/ \E context_id \in ContextIds \cup {NoContextId}, ok \in BOOLEAN :
          CancelTts(context_id, ok)

SpecCancel == Init /\ [][NextCancel]_vars

\* C24 (as claimed): a cancel request that names a context id, whether issued,
\* finished or unknown, first or repeated, is answered with success.
C24_CancelNeverFails ==
    (response.op = "tts_cancel" /\ response.context_id # NoContextId)
        => response.status = 200

\* ------------------------------------------------------- question parsing
\* if len(question_text) < 15 / len(line) > 15
MinQuestionLength == 15
\* fallback_questions[:10]
FallbackCap == 10
\* len("1. "), the number a numbered line begins with
NumberPrefixLength == 3

\* The lengths of a line's text: shorter than the minimum with and without
\* its number, exactly the minimum, and longer.
LineLengths ==
    {MinQuestionLength - NumberPrefixLength - 2, MinQuestionLength - 2,
     MinQuestionLength, MinQuestionLength + 1}

\* A line of the raw output, stripped: whether it begins with "<n>. ", the
\* length of its text behind that number, whether the text contains '?' and
\* whether it starts with a question-leading word.
Lines ==
    [numbered : BOOLEAN, len : LineLengths, qmark : BOOLEAN, word : BOOLEAN]

RECURSIVE SeqsUpTo(_, _)
SeqsUpTo(S, n) ==
    IF n = 0 THEN {<<>>}
    ELSE LET shorter == SeqsUpTo(S, n - 1)
         IN shorter \cup {Append(s, x) : s \in {q \in shorter : Len(q) = n - 1}, x \in S}

RawOutputs == SeqsUpTo(Lines, MaxLines) \ {<<>>}

\* A returned string: the text of the lines from..to of the raw output,
\* without (stripped) or with the number of the first line.
Item(from, to, stripped) == [from |-> from, to |-> to, stripped |-> stripped]

\* The last line of the item that starts at the numbered line i: the regex
\* match runs to the next "\n<n>." or to the end of the text.
RECURSIVE ItemEnd(_, _)
ItemEnd(raw, i) ==
    IF i = Len(raw) \/ raw[i + 1].numbered THEN i ELSE ItemEnd(raw, i + 1)

RECURSIVE TextLength(_, _, _)
TextLength(raw, from, to) ==
    IF from = to THEN raw[from].len
    ELSE raw[from].len + 1 + TextLength(raw, from + 1, to)

\* re.findall(r'\d+[\.\)]\s*(.*?)(?=\n\d+[\.\)]|$)', raw_questions, re.DOTALL)
RECURSIVE NumberedItems(_, _)
NumberedItems(raw, i) ==
    IF i > Len(raw) THEN <<>>
    ELSE IF raw[i].numbered
    THEN <<Item(i, ItemEnd(raw, i), TRUE)>> \o NumberedItems(raw, ItemEnd(raw, i) + 1)
    ELSE NumberedItems(raw, i + 1)

is_valid_question(raw, q) ==
    IF TextLength(raw, q.from, q.to) < MinQuestionLength THEN FALSE
    ELSE (\E i \in q.from..q.to : raw[i].qmark) \/ raw[q.from].word

\* len(line) of a whole line, its number included
LineLength(line) == line.len + (IF line.numbered THEN NumberPrefixLength ELSE 0)

\* for line in raw_questions.split('\n'): each line as an item, its number
\* included
LineItems(raw) == [i \in 1..Len(raw) |-> Item(i, i, FALSE)]

Capped(s, n) == IF Len(s) <= n THEN s ELSE SubSeq(s, 1, n)

parse_and_validate_questions(raw) ==
    LET Valid(q) == is_valid_question(raw, q)
        validated_questions == SelectSeq(NumberedItems(raw, 1), Valid)
        LooksLikeQuestion(q) ==
            raw[q.from].qmark /\ LineLength(raw[q.from]) > MinQuestionLength
        fallback_questions == SelectSeq(LineItems(raw), LooksLikeQuestion)
    IN IF validated_questions # <<>> THEN validated_questions
       ELSE IF fallback_questions # <<>> THEN Capped(fallback_questions, FallbackCap)
       ELSE SentinelList

InitParse ==
    /\ chat_sessions = EmptyDict
    /\ next_ctx = 1
    /\ cartesia_key = TRUE
    /\ socket_sessions = EmptyDict
    /\ connections = {}
    /\ rooms = {}
    /\ emitted = NoEmission
    /\ now = 0
    /\ in_flight = {}
    /\ synthesis = <<>>
    /\ cleared = {}
    /\ response \in {[op |-> "raw_questions", sid |-> NoCookie, status |-> 0,
                      body |-> "none", raw |-> raw] : raw \in RawOutputs}

\* parse_and_validate_questions(raw_questions)
ParseQuestions ==
    /\ response.op = "raw_questions"
    /\ response' = [op |-> "parsed_questions", sid |-> NoCookie, status |-> 0,
                    body |-> "none", raw |-> response.raw,
                    questions |-> parse_and_validate_questions(response.raw)]
    /\ UNCHANGED <<chat_sessions, next_ctx, cartesia_key, flight_vars, socket_vars>>

SpecParse == InitParse /\ [][ParseQuestions]_vars

\* C25 (as claimed): the parse returns the valid numbered items if there is
\* one; otherwise the lines that contain '?' and are at least 15 characters
\* long, at most 10 of them; otherwise the sentinel list; and never an empty
\* list.
C25_ParseByPreference ==
    response.op = "parsed_questions" =>
        LET raw == response.raw
            Valid(q) == is_valid_question(raw, q)
            numbered == SelectSeq(NumberedItems(raw, 1), Valid)
            AsClaimed(q) ==
                raw[q.from].qmark /\ LineLength(raw[q.from]) >= MinQuestionLength
            lines == SelectSeq(LineItems(raw), AsClaimed)
        IN /\ response.questions # <<>>
           /\ response.questions =
                 IF numbered # <<>> THEN numbered
                 ELSE IF lines # <<>> THEN Capped(lines, FallbackCap)
                 ELSE SentinelList

\* "1. What is X?\n2. How does Y work?": two numbered lines with texts of 10
\* and 16 characters, each with a '?' and a question-leading word.
TwoNumberedQuestions ==
    <<[numbered |-> TRUE, len |-> MinQuestionLength - NumberPrefixLength - 2,
       qmark |-> TRUE, word |-> TRUE],
      [numbered |-> TRUE, len |-> MinQuestionLength + 1, qmark |-> TRUE, word |-> TRUE]>>

\* C26 (as claimed): the parse of "1. What is X?\n2. How does Y work?" is the
\* list of the two texts, in that order.
C26_ParsesTwoNumberedQuestions ==
    (response.op = "parsed_questions" /\ response.raw = TwoNumberedQuestions)
        => response.questions = <<Item(1, 1, TRUE), Item(2, 2, TRUE)>>

\* ---------------------------------------------------------- pushed updates
\* The push workload: a browser opens a session, gets a token, connects and
\* authenticates its realtime connection, and uploads PDFs.
NextPush ==
    \/ \E s \in QuestionCookies \cap SessionIds : Index(s)
    \/ \E c \in QuestionCookies : GetWebsocketToken(c)
    \/ \E k \in Sids : HandleConnect(k)
    \/ \E k \in Sids : HandleDisconnect(k)
    \/ \E k \in Sids, token \in Tokens, s \in QuestionCookies :
          HandleAuthentication(k, token, s)
    \/ \E s \in QuestionCookies \cap SessionIds, out \in PdfOutcomes : UploadPdf(s, out)

SpecPush == InitQuestions /\ [][NextPush]_vars

\* C27 (as claimed): a successful upload for a session that has a connection
\* bound to it, which is in the session's broadcast group, pushes a
\* ui_state_update and a question_state_update to that group.
C27_UploadIsPushed ==
    [][\A s \in QuestionCookies \cap SessionIds, out \in PdfOutcomes :
          (/\ out.kind = "questions"
           /\ UploadPdf(s, out)
           /\ \E k \in DOMAIN socket_sessions :
                 socket_sessions[k]["session_id"] = s /\ <<k, s>> \in rooms)
             => /\ emitted'.handler = "upload_pdf"
                /\ emitted'.room = s
                /\ {e.event : e \in {emitted'.events[i] : i \in 1..Len(emitted'.events)}}
                      = {"ui_state_update", "question_state_update"}]_vars

\* ------------------------------------------------------- UI state updates
\* The JSON bodies of POST /ui-state, as the key/value pairs in the order
\* data.items() yields them; the empty body is "no data".
UiBodies ==
    {<<>>,
     <<[key |-> "visualizer_settings", value |-> [color |-> "#ff0000"]]>>,
     <<[key |-> "is_microphone_active", value |-> TRUE]>>,
     <<[key |-> "is_microphone_active", value |-> TRUE],
       [key |-> "visualizer_settings", value |-> [num_bars |-> 32]]>>}

\* dict.update(value)
Merged(d, value) ==
    [k \in DOMAIN d \cup DOMAIN value |-> IF k \in DOMAIN value THEN value[k] ELSE d[k]]

\* The loop `for key, value in data.items()` from the i-th pair on: the
\* ui_state it leaves, and whether ui_state['visualizer_settings'] raised
\* KeyError (the pairs before it stay applied, the dict is changed in place).
RECURSIVE UpdateUiState(_, _, _)
UpdateUiState(ui_state, data, i) ==
    IF i > Len(data) THEN [ui_state |-> ui_state, raised |-> FALSE]
    ELSE IF data[i].key = "visualizer_settings"
    THEN IF ~Has(ui_state, "visualizer_settings")
         THEN [ui_state |-> ui_state, raised |-> TRUE]
         ELSE UpdateUiState(DictSet(ui_state, "visualizer_settings",
                                Merged(ui_state["visualizer_settings"], data[i].value)),
                            data, i + 1)
    ELSE UpdateUiState(DictSet(ui_state, data[i].key, data[i].value), data, i + 1)

\* POST /ui-state
UiStatePost(c, data) ==
    /\ UNCHANGED <<next_ctx, cartesia_key, flight_vars, socket_vars>>
    /\ IF c = NoCookie
       THEN /\ response' = Resp("ui_state_post", c, 400, "invalid_session")
            /\ UNCHANGED chat_sessions
       ELSE IF c \notin DOMAIN chat_sessions
       THEN /\ response' = Resp("ui_state_post", c, 500, "handler_error")
            /\ UNCHANGED chat_sessions
       ELSE LET cs1 == IF Has(chat_sessions[c], "ui_state") THEN chat_sessions
                       ELSE SessSet(chat_sessions, c, "ui_state", DefaultUiState)
                r == UpdateUiState(cs1[c]["ui_state"], data, 1)
            IN IF data = <<>>
               THEN /\ chat_sessions' = cs1
                    /\ response' = Resp("ui_state_post", c, 400, "no_data")
               ELSE /\ chat_sessions' = SessSet(cs1, c, "ui_state", r.ui_state)
                    /\ response' =
                          IF r.raised THEN Resp("ui_state_post", c, 500, "handler_error")
                          ELSE Resp("ui_state_post", c, 200, "ui_state")

\* The UI workload: one browser reads and updates its UI state between PDF
\* uploads.
NextUi ==
    \/ \E s \in QuestionCookies \cap SessionIds : Index(s)
    \/ \E c \in QuestionCookies : UiStateGet(c)
    \/ \E c \in QuestionCookies, data \in UiBodies : UiStatePost(c, data)
    \/ \E s \in QuestionCookies \cap SessionIds, out \in PdfOutcomes : UploadPdf(s, out)

SpecUi == InitQuestions /\ [][NextUi]_vars

\* C28 (as claimed): a UI-state update with visualizer_settings, made for a
\* stored session after any earlier requests, succeeds and leaves the
\* visualizer settings with the given keys set and every other key as it was.
C28_VisualizerSettingsMerged ==
    [][\A c \in QuestionCookies, data \in UiBodies :
          (/\ UiStatePost(c, data)
           /\ c \in DOMAIN chat_sessions
           /\ \E i \in 1..Len(data) : data[i].key = "visualizer_settings")
             => LET old == Get(Get(chat_sessions[c], "ui_state", DefaultUiState),
                               "visualizer_settings", EmptyDict)
                    given == data[CHOOSE i \in 1..Len(data) :
                                     data[i].key = "visualizer_settings"].value
                IN /\ response'.status = 200
                   /\ Has(chat_sessions'[c]["ui_state"], "visualizer_settings")
                   /\ chat_sessions'[c]["ui_state"]["visualizer_settings"]
                         = Merged(old, given)]_vars

\* ------------------------------------------------------- progress reset
\* A progress update that leaves room for further answers: the second
\* question, one correct and one partially correct answer counted.
ProgressBodies ==
    {[current_index |-> 1, correct_count |-> 2, partially_correct_count |-> 2]}

\* The chat dialogue of one browser with progress updates between the
\* requests.
NextProgress ==
    \/ \E s \in QuestionCookies \cap SessionIds : Index(s)
    \/ \E c \in QuestionCookies, r \in ChatRequests :
          Chat(c, r.has_message, r.msg, r.gen, r.llm)
    \/ \E c \in QuestionCookies, data \in ProgressBodies : QsUpdate(c, data)

SpecProgress == InitQuestions /\ [][NextProgress]_vars

\* C29: a chat request answered with the switch to a new topic or with the
\* new difficulty stores the newly generated list, whose first question is in
\* the reply, and a question progress with current_index 0, the new total
\* and no count other than 0: nothing of the previous progress is kept.
C29_ChangeResetsProgress ==
    [][\A c \in QuestionCookies, r \in ChatRequests :
          (/\ Chat(c, r.has_message, r.msg, r.gen, r.llm)
           /\ r.has_message
           /\ response'.body \in {"switched_topic", "updated_difficulty"}) =>
             LET sess == chat_sessions'[c]
                 question_state == sess["question_state"]
             IN /\ ChatSession(c)["current_topic"] # NullTopic
                /\ sess["generated_questions"] =
                      IF response'.body = "switched_topic"
                      THEN generate_active_recall_questions(r.msg.topic, r.msg.difficulty,
                                                            r.gen)
                      ELSE generate_active_recall_questions(
                               ChatSession(c)["current_topic"], r.msg.new_difficulty, r.gen)
                /\ response'.question = sess["generated_questions"][1]
                /\ question_state["current_index"] = 0
                /\ question_state["total"] = Len(sess["generated_questions"])
                /\ \A k \in {"correct_count", "partially_correct_count", "incorrect_count"} :
                      Get(question_state, k, 0) = 0
                /\ DOMAIN question_state \subseteq
                      {"current_index", "total", "difficulty", "correct_count",
                       "incorrect_count"}]_vars

\* C29 witness: the second request of a dialogue changed the topic or the
\* difficulty, and the session is at the first question of the new list.
C29_Witness ==
    /\ response.op = "chat"
    /\ response.body \in {"switched_topic", "updated_difficulty"}
    /\ Len(chat_sessions[response.sid]["messages"]) = 4
    /\ CurrentIndex(chat_sessions[response.sid]) = 0
    /\ response.question = chat_sessions[response.sid]["generated_questions"][1]

\* ------------------------------------------------------ insertion position
\* The number of leading high items of a queue.
LeadingHigh(q) ==
    Cardinality({i \in 1..Len(q) : \A j \in 1..i : q[j].priority = "high"})

\* The enqueue workload: one browser fills and drains its speech queue.
NextEnqueue ==
    \/ \E s \in QuestionCookies \cap SessionIds : Index(s)
    \/ \E c \in QuestionCookies, len \in TextLengths, p \in Priorities :
          TtsEnqueue(c, len, p)
    \/ \E c \in QuestionCookies : ProcessTtsQueue(c, "ok")

SpecEnqueue == InitQuestions /\ [][NextEnqueue]_vars

\* C30: an accepted enqueue puts the new item at index 0 if it is high, at
\* the tail if it is low and at the index equal to the number of leading high
\* items if it is normal; the reply names that index, and the other items are
\* the earlier queue in its order.
C30_EnqueuePosition ==
    [][\A c \in QuestionCookies, len \in TextLengths, p \in Priorities :
          (TtsEnqueue(c, len, p) /\ response'.status = 200) =>
             LET q == Get(chat_sessions[c], "tts_queue", <<>>)
                 after == chat_sessions'[c]["tts_queue"]
                 idx == CASE p = "high" -> 0
                          [] p = "low" -> Len(q)
                          [] p = "normal" -> LeadingHigh(q)
             IN /\ Len(after) = Len(q) + 1
                /\ after[idx + 1] = TtsRequest(next_ctx, len, p)
                /\ response'.queue_position = idx
                /\ \A i \in 1..Len(q) : after[IF i <= idx THEN i ELSE i + 1] = q[i]]_vars

\* C30 witness: a normal item was put behind one leading high item and in
\* front of an earlier item that is not high.
C30_Witness ==
    /\ response.op = "tts_enqueue" /\ response.status = 200
    /\ response.queue_position = 1
    /\ LET q == QueueOf(response.sid)
       IN /\ Len(q) = 3
          /\ q[1].priority = "high"
          /\ q[2].priority = "normal" /\ q[2].context_id = response.context_id
          /\ q[3].priority # "high" /\ q[3].context_id < q[2].context_id

\* ------------------------------------------------------ streamed synthesis
\* The characters of an item's text, by what re.split looks at.
Terminators == {".", "!", "?"}
Whitespace == {" "}

\* next_request['text']: the queue model keeps a text's length only, so the
\* text itself is an input of the dispatch.  Two sentences with a run of two
\* blanks between them; one sentence, its blank following no terminator; a
\* text that ends in a blank; three sentences.
StreamTexts ==
    { <<"a", ".", " ", " ", "a">>,
      <<"a", " ", "a", ".">>,
      <<"a", "?", " ">>,
      <<".", " ", "!", " ", "?">> }

RECURSIVE SkipWhitespace(_, _)
\* \s+ is greedy: the first position after the run of blanks that starts at i
SkipWhitespace(text, i) ==
    IF i <= Len(text) /\ text[i] \in Whitespace THEN SkipWhitespace(text, i + 1) ELSE i

RECURSIVE SplitFrom(_, _, _)
\* re.split(r'(?<=[.!?])\s+', text) from position i on, cur being the segment
\* read so far: a run of blanks right after a terminator ends the segment.
SplitFrom(text, i, cur) ==
    IF i > Len(text)
    THEN <<cur>>
    ELSE IF text[i] \in Whitespace /\ i > 1 /\ text[i - 1] \in Terminators
    THEN <<cur>> \o SplitFrom(text, SkipWhitespace(text, i), <<>>)
    ELSE SplitFrom(text, i + 1, Append(cur, text[i]))

\* sentences = re.split(r'(?<=[.!?])\s+', text)
Sentences(text) == SplitFrom(text, 1, <<>>)

\* (mutant) every segment opens a session of its own
StreamCallAlwaysSend(item, i, sentence) ==
    [method |-> "send", contextId |-> item.context_id, transcript |-> sentence]

\* The call the generator makes for the i-th segment (i counts from 1):
\* ws_client.send for the first, getattr(ws_client, "continue") afterwards.
StreamCall(item, i, sentence) ==
    [method |-> IF i > 1 THEN "continue" ELSE "send",
     contextId |-> item.context_id, transcript |-> sentence]

\* client.tts.bytes(transcript=text, ...): the whole text, no context id
BytesCall(text) == [method |-> "bytes", transcript |-> text]

\* A dispatch as the collaborator sees it.  Without a key, or when the client
\* cannot be built, nothing is sent; a short item is sent whole inside the
\* handler; a long item's generator is handed to the response and runs later.
Followed(c, item, text, synth) ==
    [sid |-> c, item |-> item, text |-> text, cancel_requested |-> FALSE,
     calls |-> IF cartesia_key /\ synth = "ok" /\ ~item.is_streaming
               THEN <<BytesCall(text)>> ELSE <<>>,
     status |-> IF ~cartesia_key \/ synth = "client_error" THEN "not_started"
                ELSE IF synth # "ok" THEN "failed"
                ELSE IF item.is_streaming THEN "streaming" ELSE "done"]

\* process_next pops an item: the store is not empty-handed.
Pops(c) ==
    /\ c # NoCookie
    /\ Has(SessionOrEmpty(chat_sessions, c), "tts_queue")
    /\ chat_sessions[c]["tts_queue"] # <<>>

\* POST /text-to-speech/process-queue, the delivery followed: the handler
\* returns the response, and a streamed body is produced step by step while
\* other requests are handled.
ProcessTtsQueueFollowed(c, synth, text) ==
    /\ Len(synthesis) < MaxStreams
    /\ ProcessNext(c, synth)
    /\ synthesis' = IF Pops(c)
                    THEN Append(synthesis,
                                Followed(c, Head(chat_sessions[c]["tts_queue"]), text, synth))
                    ELSE synthesis
    /\ UNCHANGED <<in_flight, cleared>>

\* One iteration of the loop of generate_audio_chunks for the n-th dispatch:
\* the next segment is sent, or the collaborator raises and the generator ends.
GenerateAudioChunks(n, raises) ==
    /\ n \in 1..Len(synthesis)
    /\ synthesis[n].status = "streaming"
    /\ LET run == synthesis[n]
           sentences == Sentences(run.text)
           i == Len(run.calls) + 1
       IN synthesis' = [synthesis EXCEPT ![n] =
              IF raises
              THEN [run EXCEPT !.status = "failed"]
              ELSE [run EXCEPT !.calls = Append(@, StreamCall(run.item, i, sentences[i])),
                               !.status = IF i = Len(sentences) THEN "done" ELSE "streaming"]]
    /\ UNCHANGED <<chat_sessions, next_ctx, cartesia_key, response, socket_vars,
                   in_flight, cleared>>

\* The streaming workload: one session enqueues long texts at normal priority,
\* dispatches them and has the streams consumed.
NextStream ==
    \/ \E s \in QuestionCookies : Index(s)
    \/ \E c \in QuestionCookies : TtsEnqueue(c, StreamingThreshold + 1, "normal")
    \/ \E c \in QuestionCookies, synth \in SynthOutcomes, text \in StreamTexts :
          ProcessTtsQueueFollowed(c, synth, text)
    \/ \E n \in 1..MaxStreams, raises \in BOOLEAN : GenerateAudioChunks(n, raises)

SpecStream == InitQuestions /\ [][NextStream]_vars

\* The blank at position i belongs to a run of blanks that follows a terminator.
Separates(text, i) ==
    /\ text[i] \in Whitespace
    /\ \E j \in 1..(i - 1) :
          /\ text[j] \in Terminators
          /\ \A k \in (j + 1)..i : text[k] \in Whitespace

RECURSIVE SpokenFrom(_, _)
SpokenFrom(text, i) ==
    IF i > Len(text) THEN <<>>
    ELSE (IF Separates(text, i) THEN <<>> ELSE <<text[i]>>) \o SpokenFrom(text, i + 1)

\* The text without its separating blanks.
Spoken(text) == SpokenFrom(text, 1)

RECURSIVE Transcripts(_)
\* The transcripts of a sequence of calls, one after the other.
Transcripts(calls) ==
    IF calls = <<>> THEN <<>> ELSE Head(calls).transcript \o Transcripts(Tail(calls))

\* C31: for an item dispatched in streaming mode, the calls made to the
\* synthesis collaborator so far carry the sentence segments of the text in
\* text order, the first as a send and every later one as a continuation, all
\* with the context id of the item; a stream that has ended normally has sent
\* the whole text; and the context id an enqueue returns is the one stored in
\* the item it queued.
C31_SegmentsInOrderOneContext ==
    /\ \A n \in 1..Len(synthesis) :
          LET run == synthesis[n]
              sentences == Sentences(run.text)
          IN run.item.is_streaming =>
                /\ Len(run.calls) <= Len(sentences)
                /\ \A i \in 1..Len(run.calls) :
                      /\ run.calls[i].transcript = sentences[i]
                      /\ run.calls[i].method = (IF i = 1 THEN "send" ELSE "continue")
                      /\ run.calls[i].contextId = run.item.context_id
                /\ run.status = "done" =>
                      /\ Len(run.calls) = Len(sentences)
                      /\ Transcripts(run.calls) = Spoken(run.text)
    /\ (response.op = "tts_enqueue" /\ response.status = 200) =>
          chat_sessions[response.sid]["tts_queue"][response.queue_position + 1].context_id
              = response.context_id

\* C31 witness: a stream of three segments has ended normally, the item being
\* the second one enqueued.
C31_Witness ==
    \E n \in 1..Len(synthesis) :
        /\ synthesis[n].item.is_streaming
        /\ synthesis[n].item.context_id = 2
        /\ synthesis[n].status = "done"
        /\ Len(synthesis[n].calls) = 3
        /\ synthesis[n].calls[3].method = "continue"

\* ------------------------------------------------------ answer bookkeeping
CountKeys == {"correct_count", "partially_correct_count", "incorrect_count"}

\* question_state.get(key, 0) of the session c of the store cs, in halves
Count(cs, c, key) ==
    Get(Get(SessionOrEmpty(cs, c), "question_state", EmptyDict), key, 0)

\* Exactly one of the three counts of session c goes up, by one answer.
OneCountUp(c) ==
    \E key \in CountKeys :
        /\ Count(chat_sessions', c, key) = Count(chat_sessions, c, key) + 2
        /\ \A other \in CountKeys \ {key} :
              Count(chat_sessions', c, other) = Count(chat_sessions, c, other)

\* The request has evaluated an answer: the answer_quality it decided.
Evaluated(resp) ==
    Has(resp, "answer_quality") /\ resp.answer_quality # "none"

\* C32 (as claimed): every evaluated answer, given as a chat answer or
\* through the 'evaluate' action, increases exactly one of correct_count,
\* partially_correct_count and incorrect_count by exactly one, so that the
\* counts stay whole numbers.
C32_EachAnswerCountsOnce ==
    [][\A c \in QuestionCookies :
          /\ \A r \in ChatRequests :
                (Chat(c, r.has_message, r.msg, r.gen, r.llm) /\ Evaluated(response'))
                    => OneCountUp(c)
          /\ \A r \in EvaluateRequests :
                (QsEvaluate(c, r.has_answer, r.hint, r.llm) /\ Evaluated(response'))
                    => OneCountUp(c)]_vars

\* C33 (as claimed): in a session that has a UI state, is_assistant_speaking
\* is true exactly when an active item is set.
C33_SpeakingIffActive ==
    \A c \in DOMAIN chat_sessions :
        (Has(chat_sessions[c], "ui_state") /\ Has(chat_sessions[c], "active_tts")) =>
            (chat_sessions[c]["ui_state"]["is_assistant_speaking"]
                <=> (chat_sessions[c]["active_tts"] # None))

\* The question progress and the messages of session c in the store cs.
ProgressAndMessages(cs, c) ==
    [question_state |-> Get(SessionOrEmpty(cs, c), "question_state", None),
     messages |-> Get(SessionOrEmpty(cs, c), "messages", <<>>)]

\* A question-state action has answered with an error status.
QsError(resp) ==
    resp.op \in {"qs_next", "qs_previous", "qs_evaluate", "qs_update"} /\ resp.status >= 400

\* C34 (as claimed): a question-state action that returns an error response
\* leaves the existing question progress and the messages of the session
\* unchanged, whatever created the progress record.
C34_ErrorLeavesProgress ==
    [][\A c \in QuestionCookies :
          (/\ \/ QsNext(c)
              \/ QsPrevious(c)
              \/ \E r \in EvaluateRequests : QsEvaluate(c, r.has_answer, r.hint, r.llm)
              \/ \E data \in UpdateBodies : QsUpdate(c, data)
           /\ QsError(response')
           /\ Has(SessionOrEmpty(chat_sessions, c), "question_state"))
              => ProgressAndMessages(chat_sessions', c) = ProgressAndMessages(chat_sessions, c)]_vars

\* C40 (as claimed): a completion summary reports a whole number of correctly
\* answered questions that is not greater than the number of questions, the
\* accuracy being between 0 and 100 percent (counts are kept in halves).
C40_SummaryFiguresInRange ==
    (response.op = "chat" /\ response.status = 200 /\ response.body = "summary") =>
        /\ response.correct % 2 = 0
        /\ response.correct >= 0
        /\ response.correct <= 2 * response.total

\* ------------------------------------------------- interleaved requests
\* Handlers run one at a time and give way only while they wait for a
\* collaborator: a handler that waits is parked in in_flight with its locals.
FreeSlots == {n \in 1..MaxInFlight : \A f \in in_flight : f.req # n}

\* The context ids of the items of a queue.
Ids(queue) == {queue[i].context_id : i \in 1..Len(queue)}

\* (mutant) the queue is emptied once more when the cancel call has returned
ClearFinishedEmptiesQueue(sess) ==
    SetSpeaking(DictSet(DictSet(sess, "tts_queue", <<>>), "active_tts", None), FALSE)

\* The writes of clear that follow the cancel call: active_tts = None and
\* ui_state['is_assistant_speaking'] = False.
ClearFinished(sess) == SetSpeaking(DictSet(sess, "active_tts", None), FALSE)

\* DELETE /text-to-speech/queue up to its collaborator call: the queue is
\* emptied; with an Active item the handler waits in cancel_context, without
\* one it runs to its end.
TtsClearBegin(c) ==
    /\ c \in DOMAIN chat_sessions
    /\ FreeSlots # {}
    /\ LET cs1 == TtsInit(chat_sessions, c)
           emptied == SessSet(cs1, c, "tts_queue", <<>>)
           active_tts == cs1[c]["active_tts"]
       IN /\ cleared' = cleared \cup Ids(cs1[c]["tts_queue"])
          /\ IF active_tts # None
             THEN /\ chat_sessions' = emptied
                  /\ in_flight' = in_flight \cup
                        {[req |-> CHOOSE n \in FreeSlots : TRUE, handler |-> "tts_clear",
                          sid |-> c, context_id |-> active_tts.context_id]}
                  /\ UNCHANGED response
             ELSE /\ chat_sessions' = [emptied EXCEPT ![c] = ClearFinished(@)]
                  /\ response' = [op |-> "tts_clear", sid |-> c, status |-> 200,
                                  body |-> "cleared", log |-> "no_active"]
                  /\ UNCHANGED in_flight
    /\ UNCHANGED <<next_ctx, cartesia_key, socket_vars, synthesis>>

\* The rest of a clear: cancel_context has returned (the collaborator has
\* taken the request for that context id) or raised.
TtsClearEnd(f, cancel_ok) ==
    /\ f \in in_flight
    /\ f.handler = "tts_clear"
    /\ in_flight' = in_flight \ {f}
    /\ synthesis' = [n \in 1..Len(synthesis) |->
                        IF cancel_ok /\ synthesis[n].item.context_id = f.context_id
                        THEN [synthesis[n] EXCEPT !.cancel_requested = TRUE]
                        ELSE synthesis[n]]
    /\ chat_sessions' = [chat_sessions EXCEPT ![f.sid] = ClearFinished(@)]
    /\ response' = [op |-> "tts_clear", sid |-> f.sid, status |-> 200, body |-> "cleared",
                    log |-> IF cancel_ok THEN "cancelled" ELSE "cancel_error"]
    /\ UNCHANGED <<next_ctx, cartesia_key, socket_vars, cleared>>

\* The text every item of the concurrent workload carries: two sentences.
TwoSentences == <<"a", ".", " ", " ", "a">>

\* The concurrent speech workload of one session: enqueue, process_next and
\* clear requests on long texts, in any interleaving.
NextConcurrent ==
    \/ \E s \in QuestionCookies : Index(s)
    \/ \E c \in QuestionCookies : TtsEnqueue(c, StreamingThreshold + 1, "normal")
    \/ \E c \in QuestionCookies, synth \in SynthOutcomes :
          ProcessTtsQueueFollowed(c, synth, TwoSentences)
    \/ \E c \in QuestionCookies : TtsClearBegin(c)
    \/ \E f \in in_flight, ok \in BOOLEAN : TtsClearEnd(f, ok)

SpecConcurrent == InitQuestions /\ [][NextConcurrent]_vars

\* The same workload with the streams being consumed meanwhile.
NextSynthesis ==
    \/ NextConcurrent
    \/ \E n \in 1..MaxStreams, raises \in BOOLEAN : GenerateAudioChunks(n, raises)

SpecSynthesis == InitQuestions /\ [][NextSynthesis]_vars

\* The dispatches of session c whose synthesis is in progress.
InSynthesis(c) ==
    {n \in 1..Len(synthesis) : synthesis[n].sid = c /\ synthesis[n].status = "streaming"}

\* C35 (as claimed): at most one item of a session is in synthesis at any
\* time, the recorded Active item is the item being synthesized, and when a
\* clear has answered, every synthesis in progress has been asked to cancel.
C35_OneSynthesisAtATime ==
    \A c \in DOMAIN chat_sessions :
        /\ Cardinality(InSynthesis(c)) <= 1
        /\ \A n \in InSynthesis(c) : chat_sessions[c]["active_tts"] = synthesis[n].item
        /\ (response.op = "tts_clear" /\ response.sid = c /\ response.status = 200) =>
              \A n \in InSynthesis(c) : synthesis[n].cancel_requested

\* The context ids popped for dispatch, in the order of the dispatches.
Dispatched == [n \in 1..Len(synthesis) |-> synthesis[n].item.context_id]

\* C36: under interleaved enqueue, process_next and clear requests on one
\* session, no item is popped for dispatch twice, and the pending queue holds
\* each enqueued item that was neither popped nor cleared exactly once, and
\* nothing else.
C36_QueueIsEnqueuedMinusPoppedAndCleared ==
    /\ \A n, k \in 1..Len(Dispatched) : Dispatched[n] = Dispatched[k] => n = k
    /\ \A c \in QuestionCookies :
          HasQueue(c) =>
              /\ \A i, j \in 1..Len(QueueOf(c)) :
                    QueueOf(c)[i].context_id = QueueOf(c)[j].context_id => i = j
              /\ Ids(QueueOf(c)) =
                    (1..(next_ctx - 1)) \ ({Dispatched[n] : n \in 1..Len(Dispatched)} \cup cleared)
    /\ (\A c \in QuestionCookies : ~HasQueue(c)) => next_ctx = 1

\* C36 witness: a clear has answered while an item that was enqueued during
\* its cancel call is pending, after an item was popped and another cleared.
C36_Witness ==
    /\ response.op = "tts_clear" /\ response.status = 200
    /\ HasQueue(response.sid) /\ QueueOf(response.sid) # <<>>
    /\ cleared # {}
    /\ Len(synthesis) >= 1

\* --------------------------------------------------- overlapping chat requests
\* An answer: a message that matches none of the checks of
\* handle_ongoing_conversation, so that generate_feedback_or_hint evaluates it.
AnswerMsg == Msg("t1", "mixed", FALSE, FALSE, FALSE, NoDifficulty, FALSE)

\* The replies of the chat requests that store a new question_state dict.
Replacing == {"first_question", "switched_topic", "updated_difficulty"}

\* A parked chat request holds the question_state dict it read.  While that
\* dict is the one stored in the session, changes made in place by other
\* requests are seen through the reference; when a request stores a new dict
\* (replaced), the parked request is left with the old one as it was then.
LeftBehind(c, replaced) ==
    {IF f.handler = "chat" /\ f.sid = c /\ ~f.replaced /\ replaced
     THEN [f EXCEPT !.replaced = TRUE, !.question_state = chat_sessions[c]["question_state"]]
     ELSE f : f \in in_flight}

\* POST /chat with an answer, up to the call of the feedback collaborator:
\* the user message is appended and questions, question_state and
\* current_index are read.
ChatAnswerBegin(c) ==
    /\ c \in DOMAIN chat_sessions
    /\ FreeSlots # {}
    /\ \A f \in in_flight : f.sid # c
    /\ LET sess == chat_sessions[c]
           questions == Get(sess, "generated_questions", <<>>)
       IN /\ sess["current_topic"] # NullTopic
          /\ Has(sess, "question_state")
          /\ questions # <<>>
          /\ Get(sess["question_state"], "current_index", 0) < Len(questions)
          /\ Len(sess["messages"]) + 1 <= MaxMessages
          /\ CountsBelowBound(sess)
          /\ chat_sessions' = SessSet(chat_sessions, c, "messages",
                                      Append(sess["messages"], Message("user", "text")))
    /\ in_flight' = in_flight \cup
          {[req |-> CHOOSE n \in FreeSlots : TRUE, handler |-> "chat", sid |-> c,
            replaced |-> FALSE, question_state |-> None]}
    /\ UNCHANGED <<next_ctx, cartesia_key, response, socket_vars, synthesis, cleared>>

\* The session after the feedback collaborator has answered a parked request:
\* the counts are written into the dict the request holds, that dict is
\* stored as question_state, and the reply is appended to the messages.
AnswerStored(sess, question_state, llm) ==
    LET r == IF llm.kind = "error"
             THEN PlainReply(sess, "feedback_apology")
             ELSE LET ev == ChatEvaluated(question_state, llm.text)
                  IN Reply(DictSet(sess, "question_state", ev.state),
                           "feedback", NoQuestion, 0, 0, ev.quality)
    IN [r EXCEPT !.sess = DictSet(r.sess, "messages",
                                  Append(r.sess["messages"], Message("assistant", r.body)))]

\* The rest of a parked chat answer.
ChatAnswerEnd(f, llm) ==
    /\ f \in in_flight
    /\ f.handler = "chat"
    /\ in_flight' = in_flight \ {f}
    /\ LET sess == chat_sessions[f.sid]
           r == AnswerStored(sess, IF f.replaced THEN f.question_state
                                   ELSE sess["question_state"], llm)
       IN /\ chat_sessions' = [chat_sessions EXCEPT ![f.sid] = r.sess]
          /\ response' = [op |-> "chat", sid |-> f.sid, status |-> 200, body |-> r.body,
                          question |-> r.question, correct |-> r.correct,
                          total |-> r.total, answer_quality |-> r.answer_quality,
                          has_topic |-> (r.sess["current_topic"] # NullTopic)]
    /\ UNCHANGED <<next_ctx, cartesia_key, socket_vars, synthesis, cleared>>

\* A chat request handled from start to end while another one is parked.
ChatMeanwhile(c, has_message, msg, gen, llm) ==
    /\ ChatRequest(c, has_message, msg, gen, llm)
    /\ in_flight' = LeftBehind(c, response'.body \in Replacing)
    /\ UNCHANGED <<synthesis, cleared>>

\* The overlapping dialogue of one session: uploads while no request waits,
\* and chat requests, an answer being evaluated while others are handled.
NextOverlap ==
    \/ \E s \in QuestionCookies : Index(s)
    \/ \E s \in QuestionCookies, out \in PdfOutcomes : in_flight = {} /\ UploadPdf(s, out)
    \/ \E c \in QuestionCookies, r \in ChatRequests :
          ChatMeanwhile(c, r.has_message, r.msg, r.gen, r.llm)
    \/ \E c \in QuestionCookies : ChatAnswerBegin(c)
    \/ \E f \in in_flight, llm \in LlmOutcomes : ChatAnswerEnd(f, llm)

SpecOverlap == InitQuestions /\ [][NextOverlap]_vars

\* The three counts of session c in the store cs.
Counts(cs, c) == [key \in CountKeys |-> Count(cs, c, key)]

\* C37 (as claimed): when a chat answer completes after another chat request
\* of the session was handled during its evaluation, the stored progress
\* belongs to the stored question list: current_index is below the number of
\* stored questions, and an evaluation made against a list that has been
\* replaced meanwhile does not enter the counts.
C37_ProgressBelongsToStoredList ==
    [][\A f \in in_flight, llm \in LlmOutcomes :
          ChatAnswerEnd(f, llm) =>
              /\ CurrentIndex(chat_sessions'[f.sid]) < Len(QuestionsOf(chat_sessions'[f.sid]))
              /\ f.replaced => Counts(chat_sessions', f.sid) = Counts(chat_sessions, f.sid)]_vars

\* C38 (as claimed): a realtime connection is in the broadcast group of a
\* session only while it is bound to that session, so it is in the group of at
\* most one session, the one its current binding names.
C38_RoomOnlyWhileBound ==
    \A k \in Sids, s \in SessionIds :
        <<k, s>> \in rooms =>
            /\ k \in DOMAIN socket_sessions
            /\ socket_sessions[k]["session_id"] = s

\* ------------------------------------------------------------ failed uploads
\* The dialogue of one browser with uploads of every outcome in between.
NextUpload ==
    \/ \E s \in QuestionCookies : Index(s)
    \/ \E c \in QuestionCookies : UiStateGet(c)
    \/ \E c \in QuestionCookies, r \in IsolationChatRequests :
          Chat(c, r.has_message, r.msg, r.gen, r.llm)
    \/ \E c \in QuestionCookies, data \in ProgressBodies : QsUpdate(c, data)
    \/ \E s \in QuestionCookies, out \in PdfOutcomes : UploadPdf(s, out)

SpecUpload == InitQuestions /\ [][NextUpload]_vars

\* What the claim lists of session s in the store cs, a missing session or
\* key read as the routes read it.
Dialogue(cs, s) ==
    [current_topic |-> Get(SessionOrEmpty(cs, s), "current_topic", NullTopic),
     generated_questions |-> Get(SessionOrEmpty(cs, s), "generated_questions", <<>>),
     question_state |-> Get(SessionOrEmpty(cs, s), "question_state", None),
     messages |-> Get(SessionOrEmpty(cs, s), "messages", <<>>)]

\* ui_state['is_processing_pdf'] is true
ProcessingPdf(cs, s) ==
    /\ Has(SessionOrEmpty(cs, s), "ui_state")
    /\ Has(cs[s]["ui_state"], "is_processing_pdf")
    /\ cs[s]["ui_state"]["is_processing_pdf"]

====
